---- MODULE Spec2Model ----
(***************************************************************************)
(* A model of CNSParser (src/cnsparser.py): the line-by-line tree builder  *)
(* parse() with its attribute accumulator and access-level squasher, and   *)
(* the template regeneration engine write().                               *)
(*                                                                         *)
(* Text is modelled as sequences of symbols (strings); a repeat-index      *)
(* token is one symbol.  A source line is a record that carries the shape  *)
(* the line classifier (call_handlers) recognises and the captured groups, *)
(* and, in the templates write() works on, its position in the source, so  *)
(* that an output line can be told from a copy of another line.            *)
(* The component tree is an arena: a sequence of component records in      *)
(* creation order, each naming its parent (0 = root list).  Creation order *)
(* is the depth-first pre-order that squash_component_tree() produces, so  *)
(* arena position i+1 is flattened component index i.                      *)
(***************************************************************************)
EXTENDS Integers, Sequences, FiniteSets, TLC

VARIABLES
    source,   \* the lines read so far (the template), sentinel line first
    ps,       \* the parser object's state (parse_start's properties)
    pc,       \* where the call stands: "scan", "parsed", "error", "crash", ...
    model,    \* the component forest parse() returned (flattened arena)
    form,     \* form_data handed to write(): its level, and the instances read
    ws,       \* write()'s local state: cns, the iterator stack, the cursor
    sq,       \* the squasher applied to drawn inputs (pure-function check)
    earlier   \* the call of write() before this one on the same object:
              \* how it ended, what it returned, the instances it read

vars == <<source, ps, pc, model, form, ws, sq, earlier>>

----------------------------------------------------------------------------
(* Bounds of the model.                                                    *)

MaxLines == 5        \* template lines after the sentinel
MaxAttrLines == 2    \* hash-attribute lines among them
MaxLevelLines == 2   \* access-level declarations among them

----------------------------------------------------------------------------
(* Small helpers.                                                          *)

IsIn(x, s) == \E i \in 1..Len(s) : s[i] = x

Range(s) == {s[i] : i \in 1..Len(s)}

\* list.index(value): 0-based position of the first occurrence.
IndexOf(s, x) == (CHOOSE i \in 1..Len(s) : s[i] = x /\ \A j \in 1..(i-1) : s[j] # x) - 1

SetMin(S) == CHOOSE x \in S : \A y \in S : x <= y
SetMax(S) == CHOOSE x \in S : \A y \in S : x >= y

NumStr == <<"0", "1", "2", "3", "4", "5", "6", "7", "8", "9">>

\* str(n) for the small numbers the model reaches.
Str(n) == NumStr[n + 1]

IsNumeric(v) == IsIn(v, NumStr)

\* int(value) for a one-digit value.
ToInt(v) == IndexOf(NumStr, v)

----------------------------------------------------------------------------
(* Source lines, by the shape call_handlers() gives them.                  *)

Line(kind) ==
    [kind |-> kind, name |-> <<>>, value |-> <<>>, quote |-> "",
     text |-> <<>>, head |-> <<>>, indentation |-> 0, attributes |-> <<>>,
     no |-> 0]

SentinelLine == Line("sentinel")
BlankLine == Line("blank")
UnparsableLine == Line("unparsable")
CommentLine == Line("linecomment")
StaticLine == Line("static_parameter")
BlockCommentLine == Line("blockcomment")
AccessLevelLine(n) == [Line("accesslevel") EXCEPT !.name = <<n>>]
ParagraphLine(t) == [Line("paragraph") EXCEPT !.text = t]
SectionLine(d, h) == [Line("section_start") EXCEPT !.indentation = d, !.head = h]
ParameterLine(n, v, q) == [Line("parameter") EXCEPT !.name = n, !.value = v, !.quote = q]
AttrLine(a) == [Line("hash_attributes") EXCEPT !.attributes = a]
ChoiceLine(options) == [Line("plus_attributes") EXCEPT !.value = options]
Attr(k, v) == [key |-> k, value |-> v]

----------------------------------------------------------------------------
(* Parser state.                                                           *)

NoAttributes ==
    [accesslevel_index_min |-> -1, accesslevel_index_max |-> -1,
     accesslevel_includes |-> {}, accesslevel_excludes |-> {},
     repeat |-> FALSE, has_repeat_index |-> FALSE, repeat_index |-> "",
     repeat_min |-> -1, repeat_max |-> -1, hidden |-> FALSE,
     custom_attributes |-> <<>>, datatype |-> "", options |-> <<>>]

parse_start(fatal) ==
    [fatal_warnings |-> fatal,
     current_attributes |-> NoAttributes,
     current_paragraph |-> <<>>,
     current_sections |-> <<>>,
     accesslevel_names |-> <<>>,
     line_no |-> 0,
     components |-> <<>>,
     status |-> "ok"]

\* self.error(): a ParserException.
error(st) == [st EXCEPT !.status = "error"]

\* An exception that is not the parser's own (ValueError, KeyError, ...).
crash(st) == [st EXCEPT !.status = "crash"]

\* self.warn() that never raises.
warn_silent(st) == st

\* self.warn(): fatal only under the fatal-warnings policy.
warn(st) == IF st.fatal_warnings THEN error(st) ELSE st

----------------------------------------------------------------------------
(* Components.  A field the Python dictionary lacks holds its default      *)
(* here: -1 for a missing or None bound, "" for a missing token.           *)

Component(type) ==
    [type |-> type, parent |-> 0, label |-> <<>>, name |-> <<>>,
     default |-> <<>>, text |-> <<>>, accesslevels |-> {},
     repeat |-> FALSE, repeat_index |-> "", repeat_min |-> -1,
     repeat_max |-> -1, hidden |-> FALSE, custom |-> <<>>,
     datatype |-> "", options |-> <<>>]

\* The open section on top of the stack, as a component.
TopSection(st) == st.components[st.current_sections[Len(st.current_sections)].component]

\* `inherited` with the open section left out of account: always None.
inherited_none(st) == [given |-> FALSE, levels |-> {}]

\* What install_common_attributes() and save_paragraph() pass as
\* `inherited`: None when no section is open.
InheritedLevels(st) ==
    IF Len(st.current_sections) > 0
    THEN [given |-> TRUE, levels |-> TopSection(st).accesslevels]
    ELSE [given |-> FALSE, levels |-> {}]

----------------------------------------------------------------------------
(* Access-level squasher.                                                  *)

Squashed(status, levels) == [status |-> status, levels |-> levels]

\* The squasher without its inheritance check (lines 204-205 left out).
squash_unchecked(names, fatal, inherited, minimum_index, maximum_index, includes, excludes) ==
    LET inh == IF inherited.given THEN inherited.levels ELSE Range(names)
        afterMin == IF minimum_index # -1
                    THEN {v \in inh : IndexOf(names, v) >= minimum_index}
                    ELSE inh
        afterMax == IF maximum_index # -1
                    THEN {v \in afterMin : IndexOf(names, v) <= maximum_index}
                    ELSE afterMin
    IN  Squashed("ok", (afterMax \cup includes) \ excludes)

squash_accesslevels(names, fatal, inherited, minimum_index, maximum_index, includes, excludes) ==
    LET inh == IF inherited.given THEN inherited.levels ELSE Range(names)
        afterMin == IF minimum_index # -1
                    THEN {v \in inh : IndexOf(names, v) >= minimum_index}
                    ELSE inh
        afterMax == IF maximum_index # -1
                    THEN {v \in afterMin : IndexOf(names, v) <= maximum_index}
                    ELSE afterMin
        levels == (afterMax \cup includes) \ excludes
        ranks == {IndexOf(names, n) : n \in levels}
    IN  IF ~(levels \subseteq inh) THEN Squashed("error", {})
        \* min() / max() of an empty list raise ValueError
        ELSE IF minimum_index # -1 /\ levels = {} THEN Squashed("crash", {})
        ELSE IF minimum_index # -1 /\ minimum_index < SetMin(ranks) /\ fatal
             THEN Squashed("error", {})
        ELSE IF maximum_index # -1 /\ levels = {} THEN Squashed("crash", {})
        ELSE IF maximum_index # -1 /\ maximum_index > SetMax(ranks) /\ fatal
             THEN Squashed("error", {})
        ELSE Squashed("ok", levels)

----------------------------------------------------------------------------
(* Tree builder.                                                           *)

Installed(st, component) == [st |-> st, component |-> component]

\* The repeat keys copied from the pending attributes, with the defaults
\* of a repeatable component.
WithRepeat(component, a) ==
    IF a.repeat
    THEN [component EXCEPT !.repeat = TRUE,
                           !.repeat_index = a.repeat_index,
                           !.repeat_min = IF a.repeat_min = -1 THEN 1 ELSE a.repeat_min,
                           !.repeat_max = a.repeat_max]
    ELSE [component EXCEPT !.repeat = FALSE]

\* The value of a `#key` setting written without a value (None).
NoValue == "None"

\* string.find(token) # -1; find(None) raises TypeError.
Finds(string, token) == IsIn(token, string)

\* No name is ever found lacking.
lacks_never(component, section) == FALSE

\* A parameter whose name does not hold the token of the repeatable open
\* section (lines 286-289).
LacksParentToken(component, section) ==
    /\ component.type = "parameter"
    /\ section.repeat
    /\ ~Finds(component.name, section.repeat_index)

RECURSIVE AncestorsOutcome(_, _, _)
\* The checks of a component against the open sections from the i-th on,
\* in order (lines 278-292): "ok", "error" or "crash".
AncestorsOutcome(st, component, i) ==
    IF i > Len(st.current_sections) THEN "ok"
    ELSE LET section == st.components[st.current_sections[i].component]
         IN  IF component.repeat /\ section.repeat
                /\ section.repeat_index = component.repeat_index
             \* the message is built with '"' + repeat_index + '"'
             THEN IF component.repeat_index = NoValue THEN "crash" ELSE "error"
             ELSE IF component.type = "parameter" /\ section.repeat
                     /\ section.repeat_index = NoValue
             THEN "crash"
             ELSE IF LacksParentToken(component, section)
             THEN "error"
             ELSE AncestorsOutcome(st, component, i + 1)

InheritedHidden(st) ==
    IF Len(st.current_sections) > 0 THEN TopSection(st).hidden ELSE FALSE

\* The keys a component dictionary holds when the custom attributes are
\* copied into it (line 262 asserts that none of them is overwritten).
ComponentKeys(component) ==
    IF component.type = "section" THEN {"label", "type", "children", "accesslevels"}
    ELSE {"name", "default", "type", "datatype", "accesslevels"}
         \cup IF component.datatype = "choice" THEN {"options"} ELSE {}

CustomKeys(a) == {a.custom_attributes[i][1] : i \in 1..Len(a.custom_attributes)}

CustomValue(a, key) ==
    LET i == CHOOSE j \in 1..Len(a.custom_attributes) : a.custom_attributes[j][1] = key
    IN  a.custom_attributes[i][2]

\* The custom attributes copied into the component (lines 260-263).  The
\* keys `label`, `repeat` and `repeat_index` land on fields the component
\* has of its own; a custom `repeat` is never pending together with a
\* multi-* attribute here, nor a custom `repeat_index` with a multi-index
\* (what the component then holds depends on the order of the dictionary).
WithCustom(component, a) ==
    LET kept == SelectSeq(a.custom_attributes,
                          LAMBDA kv : kv[1] \notin {"label", "repeat", "repeat_index"})
        c1 == [component EXCEPT !.custom = kept]
    IN  IF "label" \in CustomKeys(a)
        THEN [c1 EXCEPT !.label = <<CustomValue(a, "label")>>]
        ELSE c1

\* The pending attributes as lines 265-276 read them from the component:
\* a custom `repeat` with a value is a true `repeat`, and a custom
\* `repeat_index` is the component's repeat_index key.
Effective(a) ==
    LET a1 == IF "repeat" \in CustomKeys(a) /\ CustomValue(a, "repeat") # NoValue
              THEN [a EXCEPT !.repeat = TRUE]
              ELSE a
    IN  IF "repeat_index" \in CustomKeys(a)
        THEN [a1 EXCEPT !.has_repeat_index = TRUE,
                        !.repeat_index = CustomValue(a, "repeat_index")]
        ELSE a1

\* The pending attributes stay as they are.
cleared_not(st) == st

\* self.current_attributes = {} (line 303).
Cleared(st) == [st EXCEPT !.current_attributes = NoAttributes]

\* install_common_attributes() with the pending attributes read as `a`.
InstallWith(st, component, a) ==
    LET s == squash_accesslevels(st.accesslevel_names, st.fatal_warnings,
                                 InheritedLevels(st),
                                 a.accesslevel_index_min, a.accesslevel_index_max,
                                 a.accesslevel_includes, a.accesslevel_excludes)
        c1 == WithRepeat(WithCustom([component EXCEPT !.accesslevels = s.levels], a), a)
        c2 == [c1 EXCEPT !.hidden = IF a.hidden THEN TRUE ELSE InheritedHidden(st)]
        ancestors == AncestorsOutcome(st, c1, 1)
    IN  IF s.status = "error" THEN Installed(error(st), component)
        ELSE IF s.status = "crash" THEN Installed(crash(st), component)
        \* assert key not in component
        ELSE IF CustomKeys(a) \cap ComponentKeys(component) # {}
             THEN Installed(crash(st), component)
        ELSE IF a.repeat /\ ~a.has_repeat_index THEN Installed(error(st), component)
        ELSE IF a.repeat /\ component.type = "parameter" /\ a.repeat_index = NoValue
             THEN Installed(crash(st), component)
        ELSE IF a.repeat /\ component.type = "parameter"
                /\ ~Finds(component.name, a.repeat_index)
             THEN Installed(error(st), component)
        ELSE IF ancestors = "error" THEN Installed(error(st), component)
        ELSE IF ancestors = "crash" THEN Installed(crash(st), component)
        ELSE Installed(Cleared(st), c2)

\* install_common_attributes() without the checks of lines 265-292.
install_unchecked_repeat(st, component) ==
    LET a == Effective(st.current_attributes)
        s == squash_accesslevels(st.accesslevel_names, st.fatal_warnings,
                                 InheritedLevels(st),
                                 a.accesslevel_index_min, a.accesslevel_index_max,
                                 a.accesslevel_includes, a.accesslevel_excludes)
        c1 == WithRepeat(WithCustom([component EXCEPT !.accesslevels = s.levels], a), a)
        c2 == [c1 EXCEPT !.hidden = IF a.hidden THEN TRUE ELSE InheritedHidden(st)]
    IN  IF s.status = "error" THEN Installed(error(st), component)
        ELSE IF s.status = "crash" THEN Installed(crash(st), component)
        ELSE IF CustomKeys(a) \cap ComponentKeys(component) # {}
             THEN Installed(crash(st), component)
        ELSE Installed(Cleared(st), c2)

install_common_attributes(st, component) ==
    InstallWith(st, component, Effective(st.current_attributes))

\* Nothing is popped.
pop_none(sections, level) == sections

\* current_sections with every section of depth >= level popped.
RECURSIVE PopTo(_, _)
PopTo(sections, level) ==
    IF Len(sections) > 0 /\ level <= sections[Len(sections)].level
    THEN PopTo(SubSeq(sections, 1, Len(sections) - 1), level)
    ELSE sections

ParentId(st) ==
    IF Len(st.current_sections) > 0
    THEN st.current_sections[Len(st.current_sections)].component
    ELSE 0

open_section(st, label, level) ==
    LET popped == [st EXCEPT !.current_sections = PopTo(st.current_sections, level)]
        ins == install_common_attributes(popped, [Component("section") EXCEPT !.label = label])
        component == [ins.component EXCEPT !.parent = ParentId(popped)]
    IN  IF ins.st.status # "ok" THEN ins.st
        ELSE [ins.st EXCEPT
                !.components = Append(@, component),
                !.current_sections =
                    Append(@, [level |-> level, component |-> Len(ins.st.components) + 1])]

append_component(st, component) ==
    IF Len(st.current_sections) = 0 \/ Len(st.components) = 0
    THEN [st EXCEPT !.components = Append(@, [component EXCEPT !.parent = 0])]
    ELSE [st EXCEPT !.components = Append(@, [component EXCEPT !.parent = ParentId(st)])]

----------------------------------------------------------------------------
(* Pattern handlers.                                                       *)

\* The handler without its guard (lines 358-359 left out).
handle_accesslevel_unguarded(st, args) ==
    [st EXCEPT !.accesslevel_names = Append(@, args.name[1])]

handle_accesslevel(st, args) ==
    IF Len(st.components) > 0 \/ Len(st.current_sections) > 0
    THEN error(st)
    ELSE [st EXCEPT !.accesslevel_names = Append(@, args.name[1])]

\* re.search('^\d+$', default)
IsInteger(default) == Len(default) > 0 /\ \A i \in 1..Len(default) : IsNumeric(default[i])

\* re.search('^[0-9.]+$', default)
IsDigitsAndDots(default) ==
    Len(default) > 0 /\ \A i \in 1..Len(default) : IsNumeric(default[i]) \/ default[i] = "."

\* The datatype of a parameter (lines 380-391).
Datatype(a, default) ==
    IF a.datatype # "" THEN a.datatype
    ELSE IF IsInteger(default) THEN "integer"
    ELSE IF IsDigitsAndDots(default) THEN "float"
    ELSE "string"

\* The buffer keeps its text.
emptied_not(st) == st

\* self.current_paragraph = "" (lines 398, 626, 631).
Emptied(st) == [st EXCEPT !.current_paragraph = <<>>]

handle_parameter(st, args) ==
    LET a == st.current_attributes
        ins == install_common_attributes(st,
                   [Component("parameter") EXCEPT
                       !.name = args.name, !.default = args.value,
                       !.datatype = Datatype(a, args.value),
                       !.options = IF a.datatype = "choice" THEN a.options ELSE <<>>])
        labelled == IF Len(ins.st.current_paragraph) > 0
                    THEN [st |-> Emptied(ins.st),
                          component |-> [ins.component EXCEPT !.label = ins.st.current_paragraph]]
                    ELSE [st |-> warn(ins.st), component |-> ins.component]
    IN  IF ins.st.status # "ok" THEN ins.st
        ELSE IF labelled.st.status # "ok" THEN labelled.st
        ELSE append_component(labelled.st, labelled.component)

LevelKeys == {"level-min", "level-max", "level-include", "level-exclude"}

\* dict.update({key: value}) on a dictionary kept as a sequence of pairs.
Updated(pairs, key, value) ==
    IF \E i \in 1..Len(pairs) : pairs[i][1] = key
    THEN [i \in 1..Len(pairs) |-> IF pairs[i][1] = key THEN <<key, value>> ELSE pairs[i]]
    ELSE Append(pairs, <<key, value>>)

\* No rank is above the pending maximum.
above_never(a, idx) == FALSE

\* The test of lines 427-430: a maximum is pending and the rank is above it.
AboveMaximum(a, idx) == a.accesslevel_index_max # -1 /\ idx > a.accesslevel_index_max

\* A discard that removes nothing.
discard_nothing(levels, value) == levels

\* set.discard(value)
Discard(levels, value) == levels \ {value}

\* One `#key=value` setting of a hash-attribute line.
ApplySetting(st, key, value) ==
    LET a == st.current_attributes
        names == st.accesslevel_names
        idx == IndexOf(names, value)
        set(b) == [st EXCEPT !.current_attributes = b]
    IN  IF key \in LevelKeys /\ ~IsIn(value, names) THEN error(st)
        ELSE IF key = "level-min" THEN
            IF AboveMaximum(a, idx)
            THEN error(st)
            ELSE set([a EXCEPT !.accesslevel_index_min = idx])
        ELSE IF key = "level-max" THEN
            IF a.accesslevel_index_min # -1 /\ idx < a.accesslevel_index_min
            THEN error(st)
            ELSE set([a EXCEPT !.accesslevel_index_max = idx])
        ELSE IF key = "level-include" THEN
            set([a EXCEPT !.accesslevel_excludes = Discard(@, value),
                          !.accesslevel_includes = @ \cup {value}])
        ELSE IF key = "level-exclude" THEN
            set([a EXCEPT !.accesslevel_includes = Discard(@, value),
                          !.accesslevel_excludes = @ \cup {value}])
        ELSE IF key = "hidden" THEN set([a EXCEPT !.hidden = TRUE])
        ELSE IF key = "multi-index" THEN
            IF a.has_repeat_index THEN error(st)
            ELSE set([a EXCEPT !.repeat = TRUE, !.has_repeat_index = TRUE,
                               !.repeat_index = value])
        ELSE IF key = "multi-min" THEN
            IF ~IsNumeric(value) THEN crash(st)
            ELSE set([a EXCEPT !.repeat = TRUE, !.repeat_min = ToInt(value)])
        ELSE IF key = "multi-max" THEN
            IF ~IsNumeric(value) THEN crash(st)
            ELSE set([a EXCEPT !.repeat = TRUE, !.repeat_max = ToInt(value)])
        ELSE IF key = "type" THEN set([a EXCEPT !.datatype = value])
        ELSE LET w == warn(st)
             IN  IF w.status # "ok" THEN w
                 ELSE set([a EXCEPT !.custom_attributes = Updated(@, key, value)])

RECURSIVE ApplySettings(_, _)
ApplySettings(st, attributes) ==
    IF Len(attributes) = 0 \/ st.status # "ok" THEN st
    ELSE ApplySettings(ApplySetting(st, attributes[1].key, attributes[1].value),
                       Tail(attributes))

handle_hash_attributes(st, args) == ApplySettings(st, args.attributes)

\* The pattern admits the key `choice` only; args.value is the option list.
handle_plus_attributes(st, args) ==
    [st EXCEPT !.current_attributes.datatype = "choice",
               !.current_attributes.options = args.value]

handle_paragraph(st, args) ==
    IF Len(st.current_paragraph) > 0
    THEN [st EXCEPT !.current_paragraph = @ \o <<"\n">> \o args.text]
    ELSE [st EXCEPT !.current_paragraph = args.text]

handle_head(st, args) ==
    open_section(st, SelectSeq(args.head, LAMBDA x : x # "="), args.indentation)

\* No component is made of the paragraph.
save_nothing(st) == st

save_paragraph(st) ==
    LET s == squash_accesslevels(st.accesslevel_names, st.fatal_warnings,
                                 InheritedLevels(st), -1, -1, {}, {})
    IN  append_component(st, [Component("paragraph") EXCEPT
                                  !.text = st.current_paragraph,
                                  !.accesslevels = s.levels])

\* Only the patterns that have a handler function count as a match.
handled_with_function ==
    {"accesslevel", "parameter", "paragraph", "hash_attributes",
     "plus_attributes", "section_start"}

\* The names call_handlers() can return: a pattern matched, with a handler
\* function or with None for one (lines 105-132, 557-570).
HandledKinds ==
    {"accesslevel", "parameter", "static_parameter", "paragraph", "hash_attributes",
     "plus_attributes", "section_start", "linecomment", "blockcomment"}

\* The state after the matching handler ran; the matched pattern's name is
\* line.kind, and None is any kind outside HandledKinds.
call_handlers(st, line) ==
    CASE line.kind = "accesslevel" -> handle_accesslevel(st, line)
      [] line.kind = "parameter" -> handle_parameter(st, line)
      [] line.kind = "paragraph" -> handle_paragraph(st, line)
      [] line.kind = "hash_attributes" -> handle_hash_attributes(st, line)
      [] line.kind = "plus_attributes" -> handle_plus_attributes(st, line)
      [] line.kind = "section_start" -> handle_head(st, line)
      [] OTHER -> st

\* One turn of parse()'s second loop.
ParseLine(st, line) ==
    LET s0 == [st EXCEPT !.line_no = @ + 1]
    IN  IF line.kind # "blank"
        THEN IF line.kind \in HandledKinds
             THEN call_handlers(s0, line)
             ELSE LET w == warn(s0)
                  IN  IF w.status # "ok" THEN w
                      ELSE Emptied(w)
        ELSE IF Len(s0.current_paragraph) > 0
             THEN Emptied(save_paragraph(s0))
             ELSE s0

\* Children of component `s` (0: the root list), in order.
Children(components, s) ==
    SelectSeq([i \in 1..Len(components) |-> i], LAMBDA i : components[i].parent = s)

RECURSIVE postprocess_section(_, _)
RECURSIVE PostprocessChildren(_, _, _)

\* The loop of postprocess_section() over the children not yet visited.
PostprocessChildren(components, section, kids) ==
    IF Len(kids) = 0
    THEN [components EXCEPT ![section].hidden = TRUE]
    ELSE LET c == kids[1]
             done == IF components[c].type = "section"
                     THEN postprocess_section(components, c)
                     ELSE components
         IN  IF done[c].type \in {"section", "parameter"} /\ ~done[c].hidden
             THEN [done EXCEPT ![section].hidden = FALSE]
             ELSE PostprocessChildren(done, section, Tail(kids))

postprocess_section(components, section) ==
    PostprocessChildren(components, section, Children(components, section))

RECURSIVE PostprocessRoots(_, _)
PostprocessRoots(components, roots) ==
    IF Len(roots) = 0 THEN components
    ELSE PostprocessRoots(
             IF components[roots[1]].type = "section"
             THEN postprocess_section(components, roots[1])
             ELSE components,
             Tail(roots))

\* The forest parse() returns (lines 634-644).
ParseResult(st) == PostprocessRoots(st.components, Children(st.components, 0))

----------------------------------------------------------------------------
(* parse(): the template arrives line by line; the sentinel has just been  *)
(* found on line 1 (the first loop of parse()).                            *)

NoForm == [level |-> "", identity |-> FALSE, log |-> <<>>, files |-> FALSE]
NoWs == [cns |-> <<>>, status |-> "none", blocks |-> 0]
NoSq == [status |-> "none", levels |-> {}]
NoCall == [status |-> "none", cns |-> <<>>, aux_file_map |-> <<>>, log |-> <<>>]

CountKind(lines, kind) == Len(SelectSeq(lines, LAMBDA l : l.kind = kind))

LevelNames == {"easy", "expert"}

\* The lines the tree-builder specification draws from.
ParseAlphabet ==
    {AccessLevelLine(n) : n \in LevelNames}
    \cup {AttrLine(<<Attr(k, v)>>) : k \in LevelKeys, v \in LevelNames}
    \cup {AttrLine(<<Attr("hidden", "")>>)}
    \cup {SectionLine(2, <<"S">>), SectionLine(3, <<"T">>),
          ParameterLine(<<"p">>, <<"5">>, ""),
          ParagraphLine(<<"t">>), BlankLine}

WithinBudget(lines, line) ==
    /\ Len(lines) <= MaxLines
    /\ line.kind = "hash_attributes" => CountKind(lines, "hash_attributes") < MaxAttrLines
    /\ line.kind = "accesslevel" => CountKind(lines, "accesslevel") < MaxLevelLines

ParseInit ==
    /\ source = <<SentinelLine>>
    /\ \E fatal \in BOOLEAN : ps = [parse_start(fatal) EXCEPT !.line_no = 1]
    /\ pc = "scan"
    /\ model = <<>>
    /\ form = NoForm
    /\ earlier = NoCall
    /\ ws = NoWs
    /\ sq = NoSq

\* The loop of parse() reads one more line.
Feed(line) ==
    /\ pc = "scan"
    /\ WithinBudget(source, line)
    /\ source' = Append(source, line)
    /\ ps' = ParseLine(ps, line)
    /\ pc' = IF ps'.status = "ok" THEN "scan" ELSE ps'.status
    /\ UNCHANGED <<model, form, ws, sq, earlier>>

\* End of input: parse() post-processes the root sections and returns.
ParseEnd ==
    /\ pc = "scan"
    /\ pc' = "parsed"
    /\ model' = ParseResult(ps)
    /\ UNCHANGED <<source, ps, form, ws, sq, earlier>>

FeedParse == \E line \in ParseAlphabet : Feed(line)

Next == FeedParse \/ ParseEnd

Spec == ParseInit /\ [][Next]_vars

----------------------------------------------------------------------------
(* parse() over templates with repeat attributes: tokens AA and BB, a      *)
(* valueless `#multi-index`, a multi-min without a token, and parameter    *)
(* names that hold none, one or both of the tokens.                        *)

RepeatAlphabet ==
    {AttrLine(<<Attr("multi-index", t)>>) : t \in {"AA", "BB", NoValue}}
    \cup {AttrLine(<<Attr("multi-min", "2")>>)}
    \cup {SectionLine(2, <<"S">>), SectionLine(3, <<"T">>)}
    \cup {ParameterLine(n, <<"5">>, "") :
            n \in {<<"p">>, <<"p", "AA">>, <<"p", "BB">>, <<"p", "AA", "BB">>}}

FeedRepeat == \E line \in RepeatAlphabet : Feed(line)

NextRepeat == FeedRepeat \/ ParseEnd

SpecRepeat == ParseInit /\ [][NextRepeat]_vars

----------------------------------------------------------------------------
(* parse() over templates with every repeat attribute and the unknown key  *)
(* `repeat_index`, which the parser keeps as a custom attribute.  No       *)
(* component is given both a multi-index and that key.                     *)

KeysAlphabet ==
    {AttrLine(<<Attr(k, v)>>) :
        <<k, v>> \in {<<"multi-index", "AA">>, <<"multi-min", "2">>, <<"multi-max", "3">>,
                      <<"repeat_index", "AA">>}}
    \cup {SectionLine(2, <<"S", "AA">>), ParagraphLine(<<"t">>)}
    \cup {ParameterLine(n, <<"5">>, "") : n \in {<<"p">>, <<"p", "AA">>}}

FeedKeys ==
    \E line \in KeysAlphabet :
        /\ ~(line = AttrLine(<<Attr("repeat_index", "AA")>>)
                /\ ps.current_attributes.has_repeat_index)
        /\ ~(line = AttrLine(<<Attr("multi-index", "AA")>>)
                /\ "repeat_index" \in CustomKeys(ps.current_attributes))
        /\ Feed(line)

NextKeys == FeedKeys \/ ParseEnd

SpecKeys == ParseInit /\ [][NextKeys]_vars

----------------------------------------------------------------------------
(* parse() over templates with an attribute of every kind: rank bound,     *)
(* include/exclude, hidden, repeat data, datatype, choice options and an   *)
(* unknown key.                                                            *)

AttributeAlphabet ==
    {AccessLevelLine(n) : n \in LevelNames}
    \cup {AttrLine(<<Attr(k, v)>>) :
            <<k, v>> \in {<<"level-min", "expert">>, <<"level-exclude", "easy">>,
                          <<"hidden", "">>, <<"multi-index", "AA">>, <<"type", "file">>,
                          <<"foo", "x">>}}
    \cup {ChoiceLine(<<"a", "b">>)}
    \cup {SectionLine(2, <<"S", "AA">>), SectionLine(3, <<"T", "AA">>),
          ParameterLine(<<"p", "AA">>, <<"5">>, ""), ParagraphLine(<<"t">>)}

FeedAttributes == \E line \in AttributeAlphabet : Feed(line)

NextAttributes == FeedAttributes \/ ParseEnd

SpecAttributes == ParseInit /\ [][NextAttributes]_vars

----------------------------------------------------------------------------
(* parse() over templates of text: paragraphs, blank lines, lines that no  *)
(* pattern matches and the three kinds of line that have no handler, with  *)
(* a level, a pending attribute, a section and a parameter among them.     *)

TextAlphabet ==
    {ParagraphLine(<<"t">>), BlankLine, UnparsableLine,
     StaticLine, CommentLine, BlockCommentLine,
     AccessLevelLine("easy"), AttrLine(<<Attr("hidden", "")>>),
     SectionLine(2, <<"S">>), ParameterLine(<<"p">>, <<"5">>, "")}

FeedText == \E line \in TextAlphabet : Feed(line)

NextText == FeedText \/ ParseEnd

SpecText == ParseInit /\ [][NextText]_vars

----------------------------------------------------------------------------
(* parse() over templates with what the parser only warns about: lines no  *)
(* pattern matches, hash keys it does not know (among them keys that are   *)
(* also keys of a component dictionary), parameters without a label, and   *)
(* rank bounds below the lowest level left.                                *)

CustomAlphabet ==
    {AccessLevelLine(n) : n \in LevelNames}
    \cup {AttrLine(<<Attr("level-min", "easy")>>), AttrLine(<<Attr("level-exclude", "easy")>>)}
    \cup {AttrLine(<<Attr(k, "x")>>) : k \in {"foo", "name", "label", "repeat"}}
    \cup {SectionLine(2, <<"S">>), ParameterLine(<<"p">>, <<"5">>, ""),
          ParagraphLine(<<"t">>), UnparsableLine}

FeedCustom == \E line \in CustomAlphabet : Feed(line)

NextCustom == FeedCustom \/ ParseEnd

SpecCustom == ParseInit /\ [][NextCustom]_vars

----------------------------------------------------------------------------
(* The datatype of a parameter: parse() reads type overrides and choice    *)
(* lists, then one parameter line whose default is any text of digits,     *)
(* dots and letters up to MaxDefault symbols.                              *)

MaxDefault == 5      \* symbols of a default value

DefaultSymbols == {"5", ".", "a"}

Defaults == UNION {[1..n -> DefaultSymbols] : n \in 0..MaxDefault}

TypeAlphabet ==
    {AttrLine(<<Attr("type", "file")>>), ChoiceLine(<<"a", "b">>)}
    \cup {ParameterLine(<<"p">>, d, "") : d \in Defaults}

FeedType == \E line \in TypeAlphabet : Len(ps.components) = 0 /\ Feed(line)

NextType == FeedType \/ ParseEnd

SpecType == ParseInit /\ [][NextType]_vars

----------------------------------------------------------------------------
(* The squasher as a pure function: its inputs are drawn in the initial    *)
(* state, within what the attribute accumulator can hand it (declared      *)
(* names, an inherited subset or None, rank bounds with min <= max,        *)
(* disjoint include and exclude sets of declared names).                   *)

MaxLevels == 3

LevelPool == <<"easy", "medium", "expert", "guru", "wizard">>

SquashInit ==
    /\ source = <<SentinelLine>>
    /\ ps = parse_start(FALSE)
    /\ pc = "squash"
    /\ model = <<>>
    /\ form = NoForm
    /\ earlier = NoCall
    /\ ws = NoWs
    /\ \E n \in 1..MaxLevels, f \in BOOLEAN, given \in BOOLEAN :
         \E inh \in SUBSET Range(SubSeq(LevelPool, 1, n)), lo \in -1..(n - 1), hi \in -1..(n - 1) :
           \E inc \in SUBSET Range(SubSeq(LevelPool, 1, n)) :
             \E exc \in SUBSET (Range(SubSeq(LevelPool, 1, n)) \ inc) :
                /\ (lo # -1 /\ hi # -1) => lo <= hi
                /\ ~given => inh = {}
                /\ sq = [status |-> "drawn", names |-> SubSeq(LevelPool, 1, n), fatal |-> f,
                         inherited |-> [given |-> given, levels |-> inh],
                         minimum_index |-> lo, maximum_index |-> hi,
                         includes |-> inc, excludes |-> exc, levels |-> {}]

ApplySquash ==
    /\ pc = "squash"
    /\ sq.status = "drawn"
    /\ LET r == squash_accesslevels(sq.names, sq.fatal, sq.inherited, sq.minimum_index,
                                    sq.maximum_index, sq.includes, sq.excludes)
       IN  sq' = [sq EXCEPT !.status = r.status, !.levels = r.levels]
    /\ UNCHANGED <<source, ps, pc, model, form, ws, earlier>>

SpecSquash == SquashInit /\ [][ApplySquash]_vars

----------------------------------------------------------------------------
(* write(): text substitution and line rendering.                          *)

\* re.sub(token, digits, string) on symbol sequences.
Sub(string, token, digits) ==
    [i \in 1..Len(string) |-> IF string[i] = token THEN digits ELSE string[i]]

\* Python list indexing: a negative index counts from the end.
PyValid(list, i) == -Len(list) <= i /\ i < Len(list)
PyAt(list, i) == IF i >= 0 THEN list[i + 1] ELSE list[Len(list) + i + 1]

RECURSIVE ReplaceSections(_, _, _)
\* The first loop of replace_repetition_placeholders(): the open section
\* iterators from the outermost to the innermost.
ReplaceSections(string, its, components) ==
    IF Len(its) = 0 THEN string
    ELSE LET section_component == PyAt(components, its[1].component_index)
         IN  ReplaceSections(
                 IF section_component.repeat
                 THEN Sub(string, section_component.repeat_index, Str(its[1].repetition + 1))
                 ELSE string,
                 Tail(its), components)

\* parameter_component_index = -1 stands for None.
replace_repetition_placeholders(string, section_its, components, parameter_component_index, parameter_repetition) ==
    LET s1 == ReplaceSections(string, Tail(section_its), components)
    IN  IF parameter_component_index # -1
        THEN Sub(s1, PyAt(components, parameter_component_index).repeat_index,
                 Str(parameter_repetition + 1))
        ELSE s1

\* Symbols outside [a-zA-Z0-9_]: the writer's name pattern does not match a
\* name that holds one, though the parser's pattern (re_string) does.
NonWordSymbols == {"-", "."}

\* Whether the pattern (?<=\{===>\})\s*([a-zA-Z0-9_]+)(?==[^;]*?;) finds the
\* parameter name of the line.
NameMatches(line) == \A i \in 1..Len(line.name) : line.name[i] \notin NonWordSymbols

RECURSIVE Escape(_)
\* The two escaping substitutions: \ becomes \\ and " becomes \".
Escape(value) ==
    IF Len(value) = 0 THEN <<>>
    ELSE (IF value[1] = "\\" THEN <<"\\", "\\">>
          ELSE IF value[1] = "\"" THEN <<"\\", "\"">>
          ELSE <<value[1]>>) \o Escape(Tail(value))

\* The output line of a hidden parameter: placeholders of the enclosing
\* sections are filled in in the name.
HiddenParameterLine(line, section_its, components) ==
    IF NameMatches(line)
    THEN [line EXCEPT !.name = replace_repetition_placeholders(@, section_its, components, -1, -1)]
    ELSE line

\* The output line of one repetition of a visible parameter; `repetition`
\* is the value after default substitution.
ParameterOutput(line, repetition, section_its, components, parameter_component_index, repetition_index) ==
    LET valued == [line EXCEPT !.value = Escape(repetition),
                               !.quote = IF line.quote # "" THEN "\"" ELSE ""]
    IN  IF NameMatches(line)
        THEN [valued EXCEPT !.name = replace_repetition_placeholders(
                                         @, section_its, components,
                                         parameter_component_index, repetition_index)]
        ELSE valued

----------------------------------------------------------------------------
(* write(): form data.  form_data['instances'] mirrors the visible part of *)
(* the forest: one instance per section or parameter that is not hidden,   *)
(* in order, a section instance holding one such list per repetition.  An  *)
(* instance is read at most once (the child cursor of an iterator only     *)
(* moves forward within a repetition), so its content is drawn when the    *)
(* scan reads it; which component an instance belongs to is fixed by its   *)
(* position in the list the iterator holds.                                *)

MaxRep == 2          \* stored repetitions of one instance

\* The components that have an instance in a repetition of section `s`
\* (flattened index; -1: the root block), as flattened indices.
InstanceSlots(components, s) ==
    SelectSeq(Children(components, s + 1),
              LAMBDA i : components[i].type # "paragraph" /\ ~components[i].hidden)

\* The component whose instance stands at it.repetitions[it.repetition]
\* [it.child_index]; -1 when the list is shorter (IndexError).
SlotComponent(components, it) ==
    LET slots == IF it.of >= -1 THEN InstanceSlots(components, it.of) ELSE <<>>
    IN  IF it.child_index < Len(slots) THEN slots[it.child_index + 1] - 1 ELSE -1

\* What the form stores at a slot of component `of`: `shift` is the distance
\* of the stored component_index from the component's own index, `n` the
\* number of stored repetitions.
Instance(of, shift, n) == [of |-> of, component_index |-> of + shift, repetitions |-> n]

\* The i-th (0-based) stored value of a parameter instance: the template
\* default in identity form data, a value that names its position otherwise.
StoredValue(f, components, instance, i) ==
    IF f.identity THEN components[instance.of + 1].default ELSE <<"v", Str(i + 1)>>

\* form_data['files'][component][instance][repetition]['name'] where the
\* table has that entry: form.files tells whether the table holds anything
\* at all; an entry is looked up at most once (the instance index of a
\* component only grows), so whether it is there and the name it holds are
\* drawn when the scan looks it up.
FileName(d, repetition_index) == <<d.name, Str(repetition_index + 1)>>

\* '.' + match.group(1) of re.search(r'\.(.*)$', default): the default from
\* its first dot on; nothing when it has no dot.
Extension(default) ==
    IF IsIn(".", default) THEN SubSeq(default, IndexOf(default, ".") + 1, Len(default))
    ELSE <<>>

\* dict.get(key, 0) on a dictionary kept as a sequence of pairs.
Lookup(pairs, key) ==
    IF \E i \in 1..Len(pairs) : pairs[i][1] = key
    THEN pairs[CHOOSE i \in 1..Len(pairs) : pairs[i][1] = key][2]
    ELSE 0

\* The comparison left out: any instance passes.
instance_unchecked(instance, component_index) == TRUE

\* instance['component_index'] != self.component_index is an error.
instance_matches(instance, component_index) == instance.component_index = component_index

----------------------------------------------------------------------------
(* write(): the section iterators and on_section_boundary().               *)

\* The iterator of the root block.  `repetitions` is the number of stored
\* repetition lists and `of` the component whose instance they belong to;
\* line_no and current_sections are the parser_state entry (None here).
RootIterator ==
    [component_index |-> -1, level |-> 0, has_access |-> TRUE, repetitions |-> 1,
     of |-> -1, repetition |-> 0, child_index |-> 0, line_no |-> -1,
     current_sections |-> <<>>]

write_start(first) ==
    [cns |-> <<first>>, current_paragraph_lines |-> <<>>, current_attr_lines |-> <<>>,
     component_index |-> 0, section_its |-> <<RootIterator>>, status |-> "scan",
     aux_file_map |-> <<>>,
     \* len(file_parameter_instances[key]) by key
     file_parameter_instances |-> <<>>,
     \* the numbers of the lines the scan loop has read, in order
     scanned |-> <<>>]

Raise(m, status) == [m EXCEPT !.ws.status = status]

Logged(m, instance, kind, has_access) ==
    [m EXCEPT !.form.log = Append(@,
        [of |-> instance.of, component_index |-> instance.component_index,
         repetitions |-> instance.repetitions, cursor |-> m.ws.component_index,
         kind |-> kind, has_access |-> has_access,
         local_instance_index |-> -1, uploaded |-> {}, name |-> "",
         at |-> [i \in 1..Len(m.ws.section_its) |-> m.ws.section_its[i].repetition]])]

\* The repetition-count checks left out: any count passes.
count_unchecked(component, n) == TRUE

\* The repetition-count checks on an instance (lines 859-882, 1004-1026).
CountAllowed(component, n) ==
    IF component.repeat
    THEN /\ ~(component.repeat_min # -1 /\ n < component.repeat_min)
         /\ ~(component.repeat_max # -1 /\ n > component.repeat_max)
    ELSE n = 1

\* Access is never refused.
has_access_any(it, f, component) == TRUE

HasAccess(it, f, component) == it.has_access /\ f.level \in component.accesslevels

RECURSIVE close_uncounted(_, _)
\* The jump without `repetition += 1`.
close_uncounted(its, new_level) ==
    LET n == Len(its)
    IN  IF ~(new_level <= its[n].level) THEN [its |-> its, jumped |-> FALSE]
        ELSE IF its[n].repetition < its[n].repetitions - 1
        THEN [its |-> [its EXCEPT ![n].child_index = 0], jumped |-> TRUE]
        ELSE close_uncounted([SubSeq(its, 1, n - 1) EXCEPT ![n - 1].child_index = @ + 1],
                             new_level)

RECURSIVE CloseSections(_, _)
\* The while loop of on_section_boundary(): close iterators of depth
\* new_level or more until one has a repetition left.
CloseSections(its, new_level) ==
    LET n == Len(its)
    IN  IF ~(new_level <= its[n].level) THEN [its |-> its, jumped |-> FALSE]
        ELSE IF its[n].repetition < its[n].repetitions - 1
        THEN [its |-> [its EXCEPT ![n].repetition = @ + 1, ![n].child_index = 0],
              jumped |-> TRUE]
        ELSE CloseSections([SubSeq(its, 1, n - 1) EXCEPT ![n - 1].child_index = @ + 1],
                           new_level)

Boundary(m, print) == [m |-> m, print |-> print]

\* on_section_boundary() from `if components[self.component_index]['hidden']`
\* on: the iterator of the section being entered.
EnterSection(m, components, new_level, d) ==
    LET ci == m.ws.component_index
        its == m.ws.section_its
        it == its[Len(its)]
        component == PyAt(components, ci)
        of == SlotComponent(components, it)
        instance == Instance(of, d.shift, d.n)
        has_access == HasAccess(it, m.form, component)
        pushed(mm, n, o) ==
            [mm EXCEPT !.ws.section_its = Append(@,
                [component_index |-> ci, level |-> new_level, has_access |-> has_access,
                 repetitions |-> n, of |-> o, repetition |-> 0, child_index |-> 0,
                 line_no |-> mm.ps.line_no,
                 \* parser_state['current_sections']: the stack as it is now
                 current_sections |-> mm.ps.current_sections])]
    IN  IF ~PyValid(components, ci) THEN Boundary(Raise(m, "crash"), FALSE)
        ELSE IF component.type = "paragraph" THEN Boundary(Raise(m, "crash"), FALSE)
        ELSE IF component.hidden THEN Boundary(m, TRUE)
        ELSE IF ~(new_level > it.level) THEN Boundary(Raise(m, "crash"), FALSE)
        ELSE IF it.repetitions > 0 THEN
            IF of = -1 THEN Boundary(Raise(m, "crash"), FALSE)
            ELSE LET logged == Logged(m, instance, "section", has_access)
                 IN  IF ~instance_matches(instance, ci)
                     THEN Boundary(Raise(logged, "error"), FALSE)
                     ELSE IF component.type # "section"
                     THEN Boundary(Raise(logged, "crash"), FALSE)
                     ELSE IF ~CountAllowed(component, instance.repetitions)
                     THEN Boundary(Raise(logged, "error"), FALSE)
                     ELSE Boundary(pushed(logged, instance.repetitions, of),
                                   instance.repetitions > 0)
        ELSE Boundary(pushed(m, 0, -2), FALSE)

\* on_section_boundary() past the closing of sections: nothing more at
\* end of input, the entered section's iterator otherwise.
AfterClosing(m, components, at_eof, new_level, d) ==
    IF at_eof THEN Boundary(m, FALSE)
    ELSE EnterSection(m, components, new_level, d)

\* The outcome of the closing loop: a rewind to the header of the iterator
\* left on top, or on to the section being entered.
Closed(m, components, at_eof, new_level, d, closed) ==
    IF closed.jumped
    \* current_sections and components are restored from the very lists the
    \* parser went on using: nothing changes there
    THEN Boundary([m EXCEPT !.ws.section_its = closed.its,
                            !.ws.component_index =
                                closed.its[Len(closed.its)].component_index - 1,
                            !.ps.line_no = closed.its[Len(closed.its)].line_no - 1],
                  FALSE)
    ELSE AfterClosing([m EXCEPT !.ws.section_its = closed.its],
                      components, at_eof, new_level, d)

\* new_level: 1 at end of input, the depth of the header just parsed otherwise.
NewLevel(m, at_eof) ==
    IF at_eof THEN 1 ELSE m.ps.current_sections[Len(m.ps.current_sections)].level

on_section_boundary(m, components, at_eof, d) ==
    LET its == m.ws.section_its
        it == its[Len(its)]
    IN  IF NewLevel(m, at_eof) <= it.level
        THEN IF m.ps.line_no = it.line_no THEN Boundary(m, TRUE)
             ELSE Closed(m, components, at_eof, NewLevel(m, at_eof), d,
                         CloseSections(its, NewLevel(m, at_eof)))
        ELSE AfterClosing(m, components, at_eof, NewLevel(m, at_eof), d)

----------------------------------------------------------------------------
(* write(): the scan loop.                                                 *)

Emit(m, lines) == [m EXCEPT !.ws.cns = @ \o lines]

\* The section_start branch after on_section_boundary() returned `b`;
\* `component` was looked up before the call.
AfterBoundary(b, components, component, line) ==
    LET new_line == [line EXCEPT !.head = replace_repetition_placeholders(
                                              @, b.m.ws.section_its, components, -1, -1)]
        printed == IF b.print THEN Emit(b.m, <<new_line>>) ELSE b.m
    IN  IF b.m.ws.status # "scan" THEN b.m
        ELSE IF component.type = "paragraph" THEN Raise(b.m, "crash")
        ELSE IF component.hidden
        THEN [printed EXCEPT !.ws.current_paragraph_lines = <<>>,
                             !.ws.current_attr_lines = <<>>,
                             !.ws.component_index = @ + 1]
        ELSE [printed EXCEPT !.ws.current_attr_lines = <<>>,
                             !.ws.component_index = @ + 1]

\* The section_start branch of the loop; the handler has run.
SectionStep(m, components, line, d) ==
    IF ~PyValid(components, m.ws.component_index) THEN Raise(m, "crash")
    ELSE AfterBoundary(on_section_boundary(m, components, FALSE, d), components,
                       PyAt(components, m.ws.component_index), line)

\* filename_new: the parameter's name with the placeholders filled in, plus
\* the extension of the default.
CanonicalName(m, components, i) ==
    LET ci == m.ws.component_index
        component == PyAt(components, ci)
    IN  replace_repetition_placeholders(component.name, m.ws.section_its, components,
                                        IF component.repeat THEN ci ELSE -1, i)
        \o Extension(component.default)

\* The file map is left alone.
file_map_unchanged(m, components, count, i, uploaded, d) == m.ws.aux_file_map

RECURSIVE FileMap(_, _, _, _, _, _)
\* aux_file_map after the repetitions from `i` on: one assignment per
\* repetition that has an entry in the files table.
FileMap(m, components, count, i, uploaded, d) ==
    IF i >= count THEN m.ws.aux_file_map
    ELSE FileMap(IF i \in uploaded
                 THEN [m EXCEPT !.ws.aux_file_map =
                          Updated(@, FileName(d, i), CanonicalName(m, components, i))]
                 ELSE m,
                 components, count, i + 1, uploaded, d)

RECURSIVE Repetitions(_, _, _, _, _, _, _, _)
\* The loop over the repetitions of a visible parameter, from repetition
\* `i` on: the buffered attribute and paragraph lines, then the line.
\* `uploaded` holds the repetitions that have an entry in the files table.
Repetitions(m, components, line, instance, has_access, count, i, uploaded) ==
    IF i >= count THEN <<>>
    ELSE LET ci == m.ws.component_index
             component == PyAt(components, ci)
             own == IF component.repeat THEN ci ELSE -1
             repetition ==
                 IF i \in uploaded THEN CanonicalName(m, components, i)
                 ELSE IF has_access THEN StoredValue(m.form, components, instance, i)
                 ELSE replace_repetition_placeholders(component.default, m.ws.section_its,
                                                      components, own, i)
         IN  m.ws.current_attr_lines \o m.ws.current_paragraph_lines
             \o <<ParameterOutput(line, repetition, m.ws.section_its, components, own, i)>>
             \o Repetitions(m, components, line, instance, has_access, count, i + 1, uploaded)

\* The part of the parameter branch from line 1037 on: the instance
\* passed its checks.
Expanded(m, components, line, instance, has_access, count, d) ==
    LET ci == m.ws.component_index
        component == PyAt(components, ci)
        local_instance_index == Lookup(m.ws.file_parameter_instances, ci)
        is_file == component.datatype = "file"
        stored == IF m.form.files THEN d.uploaded \cap (0..(instance.repetitions - 1))
                  ELSE {}
        uploaded == IF is_file /\ has_access THEN stored ELSE {}
        noted == [m EXCEPT
                    !.ws.file_parameter_instances =
                        Updated(@, ci, IF is_file THEN local_instance_index + 1
                                       ELSE local_instance_index),
                    !.form.log[Len(m.form.log)].local_instance_index =
                        IF is_file THEN local_instance_index ELSE -1,
                    \* what the files table holds under the key looked up,
                    \* for the repetitions the instance stores
                    !.form.log[Len(m.form.log)].uploaded = stored,
                    !.form.log[Len(m.form.log)].name = IF stored # {} THEN d.name ELSE ""]
    IN  \* assert len(repetition)
        IF \E i \in uploaded : Len(StoredValue(m.form, components, instance, i)) = 0
        THEN Raise(noted, "crash")
        ELSE [Emit(noted, Repetitions(m, components, line, instance, has_access,
                                      count, 0, uploaded))
                 EXCEPT !.ws.aux_file_map = FileMap(m, components, count, 0, uploaded, d)]

\* The parameter branch of the loop; the handler has run.
ParameterStep(m, components, line, d) ==
    LET ci == m.ws.component_index
        its == m.ws.section_its
        it == its[Len(its)]
        component == PyAt(components, ci)
        of == SlotComponent(components, it)
        instance == Instance(of, d.shift, d.n)
        has_access == HasAccess(it, m.form, component)
        logged == Logged(m, instance, "parameter", has_access)
        count == IF has_access THEN instance.repetitions
                 ELSE IF component.repeat THEN component.repeat_min ELSE 1
        finish(mm) == IF mm.ws.status # "scan" THEN mm
                      ELSE [mm EXCEPT !.ws.current_paragraph_lines = <<>>,
                                      !.ws.current_attr_lines = <<>>,
                                      !.ws.section_its[Len(its)].child_index = @ + 1,
                                      !.ws.component_index = @ + 1]
    IN  IF ~PyValid(components, ci) THEN Raise(m, "crash")
        ELSE IF component.type = "paragraph" THEN Raise(m, "crash")
        ELSE IF component.hidden
        THEN [Emit(m, m.ws.current_attr_lines \o m.ws.current_paragraph_lines
                      \o <<HiddenParameterLine(line, its, components)>>)
                 EXCEPT !.ws.current_paragraph_lines = <<>>,
                        !.ws.current_attr_lines = <<>>,
                        !.ws.component_index = @ + 1]
        ELSE IF it.repetitions > 0 THEN
            IF of = -1 THEN Raise(m, "crash")
            ELSE IF ~instance_matches(instance, ci) THEN Raise(logged, "error")
            ELSE IF component.type # "parameter" THEN Raise(logged, "crash")
            ELSE IF ~CountAllowed(component, instance.repetitions) THEN Raise(logged, "error")
            ELSE finish(Expanded(logged, components, line, instance, has_access, count, d))
        ELSE finish(m)

\* The branches of the loop for a line a handler has taken; m.ps is the
\* parser state the handler left.
Handled(m, components, line, d) ==
    IF m.ps.status # "ok" THEN Raise(m, m.ps.status)
    ELSE IF line.kind = "section_start" THEN SectionStep(m, components, line, d)
    ELSE IF line.kind = "parameter" THEN ParameterStep(m, components, line, d)
    ELSE IF line.kind = "paragraph"
    THEN [m EXCEPT !.ws.current_paragraph_lines = Append(@,
             [line EXCEPT !.text = replace_repetition_placeholders(
                                       @, m.ws.section_its, components, -1, -1)])]
    ELSE IF line.kind \in {"hash_attributes", "plus_attributes"}
    THEN [m EXCEPT !.ws.current_attr_lines = Append(@, line)]
    ELSE Emit(m, <<line>>)

\* The body of the loop for `line`, self.line_no already advanced.
Scanned(m1, components, line, d) ==
    IF line.kind = "blank" THEN
        IF Len(m1.ps.current_paragraph) > 0
        THEN [Emit(m1, m1.ws.current_paragraph_lines \o <<line>>)
                 EXCEPT !.ws.current_paragraph_lines = <<>>,
                        !.ps = [save_paragraph(m1.ps) EXCEPT !.current_paragraph = <<>>],
                        !.ws.component_index = @ + 1]
        ELSE Emit(m1, <<line>>)
    ELSE IF line.kind \notin HandledKinds
    THEN [Emit(m1, m1.ws.current_paragraph_lines \o <<line>>)
             EXCEPT !.ps.current_paragraph = <<>>,
                    !.ws.current_paragraph_lines = <<>>]
    ELSE Handled([m1 EXCEPT !.ps = call_handlers(m1.ps, line)], components, line, d)

\* The body of the loop for the line at self.line_no.
WriteLine(m, components, src, d) ==
    Scanned([m EXCEPT !.ps.line_no = @ + 1, !.ws.scanned = Append(@, m.ps.line_no + 1)],
            components, src[m.ps.line_no + 1], d)

\* One turn of `while True` at end of input, after the open sections were
\* closed or repeated: the loop ends if the scan is still at the end.
AtEnd(m, components, src, d) ==
    IF m.ps.line_no >= Len(src) THEN Raise(m, "done")
    ELSE WriteLine(m, components, src, d)

\* One turn of `while True`.
WriteTurn(m, components, src, d) ==
    IF m.ps.line_no >= Len(src)
    THEN AtEnd(on_section_boundary(m, components, TRUE, d).m, components, src, d)
    ELSE WriteLine(m, components, src, d)

----------------------------------------------------------------------------
(* write() over templates built from blocks of lines.  While the template  *)
(* is being put together `ps` is the state of the preliminary parse() of   *)
(* the lines so far; a block names the repeat-index tokens of the sections *)
(* that are open where it lands, as the tree builder requires.             *)

MaxBlocks == 3       \* blocks of lines after the sentinel

SectionLabel == [d \in {2, 3} |-> IF d = 2 THEN "S" ELSE "T"]
SectionToken == [d \in {2, 3} |-> IF d = 2 THEN "AA" ELSE "BB"]
ParameterToken == "CC"

RECURSIVE OpenTokens(_, _)
\* The tokens of the repeatable sections on a section stack.
OpenTokens(components, sections) ==
    IF Len(sections) = 0 THEN <<>>
    ELSE (IF components[sections[1].component].repeat
          THEN <<components[sections[1].component].repeat_index>> ELSE <<>>)
         \o OpenTokens(components, Tail(sections))

SectionBlocks(st) ==
    UNION {LET toks == OpenTokens(st.components, PopTo(st.current_sections, d))
           IN  {<<SectionLine(d, <<SectionLabel[d]>> \o toks)>>,
                <<AttrLine(<<Attr("multi-index", SectionToken[d])>>),
                  SectionLine(d, <<SectionLabel[d]>> \o toks \o <<SectionToken[d]>>)>>}
           : d \in IF Len(st.current_sections) > 0 THEN {2, 3} ELSE {2}}

ParameterBlocks(st) ==
    LET toks == OpenTokens(st.components, st.current_sections)
    IN  {<<ParameterLine(<<"p">> \o toks, <<"5">>, "")>>,
         <<ParagraphLine(<<"l">>), ParameterLine(<<"q">> \o toks, <<"a">>, "'")>>,
         <<AttrLine(<<Attr("multi-index", ParameterToken)>>),
           ParameterLine(<<"f">> \o toks \o <<ParameterToken>>, <<"d", ParameterToken>>, "")>>,
         <<AttrLine(<<Attr("multi-index", ParameterToken)>>),
           ParameterLine(<<"g", "-">> \o toks \o <<ParameterToken>>, <<"d">>, "")>>,
         <<AttrLine(<<Attr("multi-index", ParameterToken), Attr("multi-max", "1")>>),
           ParameterLine(<<"m">> \o toks \o <<ParameterToken>>, <<"d">>, "")>>,
         <<AttrLine(<<Attr("hidden", "")>>), ParameterLine(<<"h">> \o toks, <<"0">>, "")>>}
        \cup IF Len(st.accesslevel_names) > 0
             THEN {<<AttrLine(<<Attr("multi-index", ParameterToken), Attr("multi-min", "2"),
                                Attr("level-min", "expert")>>),
                     ParameterLine(<<"r">> \o toks \o <<ParameterToken>>, <<"d">>, "")>>}
             ELSE {}

OtherBlocks(st) ==
    {<<BlankLine>>, <<CommentLine>>, <<ParagraphLine(<<"t">>)>>}
    \cup IF Len(st.components) = 0 /\ Len(st.accesslevel_names) = 0
         THEN {<<AccessLevelLine("easy"), AccessLevelLine("expert")>>}
         ELSE {}

Blocks(st) == SectionBlocks(st) \cup ParameterBlocks(st) \cup OtherBlocks(st)

\* The lines of a block at their place in the source.
Numbered(lines, start) == [i \in 1..Len(lines) |-> [lines[i] EXCEPT !.no = start + i]]

RECURSIVE ParseLines(_, _)
\* parse()'s second loop over `lines`; an exception ends it.
ParseLines(st, lines) ==
    IF Len(lines) = 0 \/ st.status # "ok" THEN st
    ELSE ParseLines(ParseLine(st, lines[1]), Tail(lines))

WriteInit ==
    /\ source = Numbered(<<SentinelLine>>, 0)
    /\ ps = [parse_start(FALSE) EXCEPT !.line_no = 1]
    /\ pc = "build"
    /\ model = <<>>
    /\ form = NoForm
    /\ earlier = NoCall
    /\ ws = NoWs
    /\ sq = NoSq

\* The template grows by a block; the preliminary parse reads it.
AddBlock ==
    /\ pc = "build"
    /\ ws.blocks < MaxBlocks
    /\ \E block \in Blocks(ps) :
          /\ source' = source \o Numbered(block, Len(source))
          /\ ps' = ParseLines(ps, block)
    /\ pc' = IF ps'.status = "ok" THEN "build" ELSE ps'.status
    /\ ws' = [ws EXCEPT !.blocks = @ + 1]
    /\ UNCHANGED <<model, form, sq, earlier>>

FileDraws(f) ==
    IF f.files THEN [uploaded : SUBSET (0..(MaxRep - 1)), name : {"u", "w"}]
    ELSE {[uploaded |-> {}, name |-> "u"]}

Draws(f) ==
    {[shift |-> i.shift, n |-> i.n, uploaded |-> u.uploaded, name |-> u.name] :
        i \in IF f.identity THEN {[shift |-> 0, n |-> 1]}
               ELSE [shift : {0, 1}, n : 0..MaxRep],
        u \in FileDraws(f)}

LastLevel(names) == IF Len(names) > 0 THEN names[Len(names)] ELSE ""

\* Whether the files table can matter: it is read for file parameters only.
HasFileParameter(components) ==
    \E i \in 1..Len(components) : components[i].datatype = "file"

\* write() up to its scan loop: the preliminary parse() returns the forest,
\* the parser state is initialised again and the lines through the sentinel
\* are copied.  The form data is identity form data or any other.
WriteStart ==
    /\ pc = "build"
    /\ model' = ParseResult(ps)
    /\ ps' = [parse_start(ps.fatal_warnings) EXCEPT !.line_no = 1]
    /\ ws' = write_start(source[1])
    /\ \E identity \in BOOLEAN :
          \E level \in IF identity \/ Len(ps.accesslevel_names) = 0
                       THEN {LastLevel(ps.accesslevel_names)}
                       ELSE Range(ps.accesslevel_names) :
              \E files \in IF HasFileParameter(ps.components) THEN BOOLEAN ELSE {FALSE} :
                  form' = [level |-> level, identity |-> identity, log |-> <<>>,
                           files |-> files]
    /\ pc' = "wscan"
    /\ UNCHANGED <<source, sq, earlier>>

\* The variables after a turn that left the engine in state m.
Turned(m) ==
    /\ ps' = m.ps
    /\ ws' = m.ws
    /\ form' = m.form
    /\ pc' = CASE m.ws.status = "scan" -> "wscan"
               [] m.ws.status = "done" -> "wdone"
               [] m.ws.status = "error" -> "werror"
               [] OTHER -> "wcrash"

\* One turn of write()'s scan loop.
WriteStep ==
    /\ pc = "wscan"
    /\ \E d \in Draws(form) :
          Turned(WriteTurn([ps |-> ps, ws |-> ws, form |-> form], model, source, d))
    /\ UNCHANGED <<source, model, sq, earlier>>

NextWrite == AddBlock \/ WriteStart \/ WriteStep

SpecWrite == WriteInit /\ [][NextWrite]_vars

----------------------------------------------------------------------------
(* write() on nested templates: sections of two depths that may be         *)
(* repeatable with a minimum of zero, hidden or restricted to a level,     *)
(* and parameters inside them.                                             *)

MaxNested == 4       \* blocks of lines after the sentinel

NestedSections(st) ==
    UNION {LET toks == OpenTokens(st.components, PopTo(st.current_sections, d))
           IN  {<<SectionLine(d, <<SectionLabel[d]>> \o toks)>>,
                <<AttrLine(<<Attr("multi-index", SectionToken[d]), Attr("multi-min", "0")>>),
                  SectionLine(d, <<SectionLabel[d]>> \o toks \o <<SectionToken[d]>>)>>}
               \cup (IF d = 3
                     THEN {<<AttrLine(<<Attr("hidden", "")>>),
                             SectionLine(d, <<SectionLabel[d]>> \o toks)>>}
                     ELSE {})
               \cup (IF d = 2 /\ Len(st.accesslevel_names) > 0
                     THEN {<<AttrLine(<<Attr("level-min", "expert")>>),
                             SectionLine(d, <<SectionLabel[d]>> \o toks)>>}
                     ELSE {})
           : d \in {2, 3}}

NestedParameters(st) ==
    LET toks == OpenTokens(st.components, st.current_sections)
    IN  {<<ParameterLine(<<"p">> \o toks, <<"5">>, "")>>,
         <<AttrLine(<<Attr("hidden", "")>>), ParameterLine(<<"h", "-">> \o toks, <<"0">>, "")>>}

NestedBlocks(st) ==
    NestedSections(st) \cup NestedParameters(st)
    \cup IF Len(st.components) = 0 /\ Len(st.accesslevel_names) = 0
         THEN {<<AccessLevelLine("easy"), AccessLevelLine("expert")>>}
         ELSE {}

\* The template grows by a block; the preliminary parse reads it.
AddNested ==
    /\ pc = "build"
    /\ ws.blocks < MaxNested
    /\ \E block \in NestedBlocks(ps) :
          /\ source' = source \o Numbered(block, Len(source))
          /\ ps' = ParseLines(ps, block)
    /\ pc' = IF ps'.status = "ok" THEN "build" ELSE ps'.status
    /\ ws' = [ws EXCEPT !.blocks = @ + 1]
    /\ UNCHANGED <<model, form, sq, earlier>>

NextNested == AddNested \/ WriteStart \/ WriteStep

SpecNested == WriteInit /\ [][NextNested]_vars

----------------------------------------------------------------------------
(* write() on templates with file parameters: plain, repeatable, with and  *)
(* without an extension in the default, restricted to a level, inside      *)
(* sections that may be repeated; the form data may name uploaded files.   *)
(* The templates declare the two access levels first: without declared     *)
(* levels no form has access to any parameter.                             *)

MaxFiles == 4        \* blocks of lines after the sentinel

FileParameters(st) ==
    LET toks == OpenTokens(st.components, st.current_sections)
    IN  {<<ParameterLine(<<"p">> \o toks, <<"5">>, "")>>,
         <<AttrLine(<<Attr("type", "file")>>),
           ParameterLine(<<"f">> \o toks, <<"d", ".", "x">>, "'")>>,
         <<AttrLine(<<Attr("type", "file"), Attr("multi-index", ParameterToken)>>),
           ParameterLine(<<"g">> \o toks \o <<ParameterToken>>, <<"d">>, "")>>,
         <<AttrLine(<<Attr("type", "file"), Attr("level-min", "expert")>>),
           ParameterLine(<<"r">> \o toks, <<"d", ".", "x">>, "")>>}

FileSections(st) ==
    {<<SectionLine(2, <<SectionLabel[2]>>)>>,
     <<AttrLine(<<Attr("multi-index", SectionToken[2])>>),
       SectionLine(2, <<SectionLabel[2], SectionToken[2]>>)>>}

FileBlocks(st) ==
    IF Len(st.accesslevel_names) = 0
    THEN {<<AccessLevelLine("easy"), AccessLevelLine("expert")>>}
    ELSE FileSections(st) \cup FileParameters(st)

\* The template grows by a block; the preliminary parse reads it.
AddFiles ==
    /\ pc = "build"
    /\ ws.blocks < MaxFiles
    /\ \E block \in FileBlocks(ps) :
          /\ source' = source \o Numbered(block, Len(source))
          /\ ps' = ParseLines(ps, block)
    /\ pc' = IF ps'.status = "ok" THEN "build" ELSE ps'.status
    /\ ws' = [ws EXCEPT !.blocks = @ + 1]
    /\ UNCHANGED <<model, form, sq, earlier>>

NextFiles == AddFiles \/ WriteStart \/ WriteStep

SpecFiles == WriteInit /\ [][NextFiles]_vars

----------------------------------------------------------------------------
(* parse() and write() as whole calls over a source that may hold lines    *)
(* before the sentinel, or no sentinel at all.  parse() loops over         *)
(* self.source twice: a one-shot stream goes on behind the sentinel, a     *)
(* list (what write() makes of the source, line 661) starts again at its   *)
(* first line.                                                             *)

MaxSource == 3       \* lines of a whole source

HasSentinel(lines) == \E i \in 1..Len(lines) : lines[i].kind = "sentinel"

\* The number of lines the first loop reads: through the sentinel, or all.
SentinelAt(lines) ==
    IF HasSentinel(lines)
    THEN CHOOSE i \in 1..Len(lines) :
             lines[i].kind = "sentinel" /\ \A j \in 1..(i - 1) : lines[j].kind # "sentinel"
    ELSE Len(lines)

\* The sentinel line `{- begin block parameter definition -}` as
\* call_handlers() sees it when the second loop reads it: a block comment.
Classified(line) ==
    IF line.kind = "sentinel" THEN [line EXCEPT !.kind = "blockcomment"] ELSE line

\* The lines the second loop of parse() reads.
SecondLoop(lines, one_shot) ==
    LET rest == IF one_shot THEN SubSeq(lines, SentinelAt(lines) + 1, Len(lines)) ELSE lines
    IN  [i \in 1..Len(rest) |-> Classified(rest[i])]

Parsed(st, forest) == [st |-> st, forest |-> forest]

\* What parse() returns from parser state st: the post-processed forest.
Returned(st) ==
    IF st.status # "ok" THEN Parsed(st, <<>>) ELSE Parsed(st, ParseResult(st))

\* parse() without the check of found_parameter_block (lines 615-616).
parse_unguarded(lines, fatal, one_shot) ==
    Returned(ParseLines([parse_start(fatal) EXCEPT !.line_no = SentinelAt(lines)],
                        SecondLoop(lines, one_shot)))

parse(lines, fatal, one_shot) ==
    IF ~HasSentinel(lines)
    THEN Parsed(error([parse_start(fatal) EXCEPT !.line_no = SentinelAt(lines)]), <<>>)
    ELSE Returned(ParseLines([parse_start(fatal) EXCEPT !.line_no = SentinelAt(lines)],
                             SecondLoop(lines, one_shot)))

SourceAlphabet ==
    {SentinelLine, AccessLevelLine("easy"), SectionLine(2, <<"S">>),
     ParameterLine(<<"p">>, <<"5">>, ""), ParagraphLine(<<"t">>), BlankLine}

SourceInit ==
    /\ source = <<>>
    /\ \E fatal \in BOOLEAN : ps = parse_start(fatal)
    /\ pc = "source"
    /\ model = <<>>
    /\ form = NoForm
    /\ earlier = NoCall
    /\ ws = NoWs
    /\ sq = NoSq

\* The source grows by a line; it holds the sentinel at most once.
AddLine ==
    /\ pc = "source"
    /\ Len(source) < MaxSource
    /\ \E line \in SourceAlphabet :
          /\ line.kind = "sentinel" => ~HasSentinel(source)
          /\ source' = source \o Numbered(<<line>>, Len(source))
    /\ UNCHANGED <<ps, pc, model, form, ws, sq, earlier>>

\* The call's end as the caller sees it.
Ended(call, status) ==
    CASE status = "ok" -> IF call = "parse" THEN "parsed" ELSE "wscan"
      [] status = "error" -> IF call = "parse" THEN "error" ELSE "werror"
      [] OTHER -> IF call = "parse" THEN "crash" ELSE "wcrash"

\* The variables after parse() returned or raised r.
ParseCalled(r) ==
    /\ ps' = r.st
    /\ model' = r.forest
    /\ pc' = Ended("parse", r.st.status)

\* parse() on a source that is a one-shot stream of lines.
ParseCall ==
    /\ pc = "source"
    /\ ParseCalled(parse(source, ps.fatal_warnings, TRUE))
    /\ UNCHANGED <<source, form, ws, sq, earlier>>

\* The variables after write()'s preliminary parse returned or raised r.
WriteCalled(r) ==
    /\ model' = r.forest
    /\ pc' = Ended("write", r.st.status)
    /\ IF r.st.status = "ok"
       THEN /\ ps' = [parse_start(ps.fatal_warnings) EXCEPT !.line_no = SentinelAt(source)]
            /\ ws' = [write_start(source[1]) EXCEPT !.cns = SubSeq(source, 1, SentinelAt(source))]
            /\ form' = [level |-> LastLevel(r.st.accesslevel_names),
                        identity |-> FALSE, log |-> <<>>, files |-> FALSE]
       ELSE /\ ps' = r.st
            /\ UNCHANGED <<ws, form>>

\* write() through line 729: the source becomes a list, parse() runs on
\* it, and if it returns, the parser state is initialised again and the
\* lines through the sentinel are copied to the output.
WriteCall ==
    /\ pc = "source"
    /\ WriteCalled(parse(source, ps.fatal_warnings, FALSE))
    /\ UNCHANGED <<source, sq, earlier>>

NextSource == AddLine \/ ParseCall \/ WriteCall \/ WriteStep

SpecSource == SourceInit /\ [][NextSource]_vars

----------------------------------------------------------------------------
(* write() called a second time on the same parser object, with the same   *)
(* form data, after the first call returned or raised.  The object then    *)
(* holds what the first call left: the source as a list (line 661) and,    *)
(* after an exception, the parser properties and self.component_index.     *)
(* The templates declare the two access levels and go on with sections,    *)
(* plain and file parameters, paragraphs and blank lines.                  *)

MaxTwice == 2        \* blocks of lines after the level declarations

LevelsBlock == <<AccessLevelLine("easy"), AccessLevelLine("expert")>>

TwiceBlocks(st) ==
    {<<AttrLine(<<Attr("multi-index", SectionToken[2])>>),
       SectionLine(2, <<SectionLabel[2], SectionToken[2]>>)>>,
     <<ParagraphLine(<<"t">>)>>, <<BlankLine>>}
    \cup FileParameters(st)

TwiceInit ==
    /\ source = Numbered(<<SentinelLine>> \o LevelsBlock, 0)
    /\ ps = ParseLines([parse_start(FALSE) EXCEPT !.line_no = 1], LevelsBlock)
    /\ pc = "build"
    /\ model = <<>>
    /\ form = NoForm
    /\ earlier = NoCall
    /\ ws = NoWs
    /\ sq = NoSq

\* The template grows by a block; the preliminary parse reads it.
AddTwice ==
    /\ pc = "build"
    /\ ws.blocks < MaxTwice
    /\ \E block \in TwiceBlocks(ps) :
          /\ source' = source \o Numbered(block, Len(source))
          /\ ps' = ParseLines(ps, block)
    /\ pc' = IF ps'.status = "ok" THEN "build" ELSE ps'.status
    /\ ws' = [ws EXCEPT !.blocks = @ + 1]
    /\ UNCHANGED <<model, form, sq, earlier>>

\* parse_start() on an object whose parser properties are `left`: every
\* one of them is assigned (lines 578-585).
Restarted(left) == parse_start(left.fatal_warnings)

\* self.component_index keeps the value the earlier call left.
write_resumed(left, first) ==
    [write_start(first) EXCEPT !.component_index = left.component_index]

\* write()'s own state on an object an earlier call left with the write
\* state `left`: cns and aux_file_map are new (lines 653-654), so is the
\* iterator stack (line 713), and self.component_index is 0 (line 711).
write_restart(left, first) == write_start(first)

\* What an instance lookup found in the form data.
Stored(entry) == <<entry.component_index, entry.repetitions, entry.uploaded, entry.name>>

\* The lookup a turn has made, if any, found what the earlier call found
\* at the same place of the form data.
SameFormData(log, before) ==
    IF Len(log) = 0 THEN TRUE
    ELSE LET e == log[Len(log)]
         IN  \A i \in 1..Len(before) :
                (before[i].of = e.of /\ before[i].at = e.at) => Stored(before[i]) = Stored(e)

\* The variables after the preliminary parse of a later call returned or
\* raised r.
Recalled(r) ==
    /\ model' = r.forest
    /\ pc' = Ended("write", r.st.status)
    /\ ps' = IF r.st.status = "ok"
             THEN [Restarted(r.st) EXCEPT !.line_no = SentinelAt(source)]
             ELSE r.st
    /\ ws' = IF r.st.status = "ok"
             THEN [write_restart(ws, source[1]) EXCEPT
                       !.cns = SubSeq(source, 1, SentinelAt(source))]
             ELSE ws

\* write() is called again, through line 729: the source is a list, parse()
\* runs on it from parse_start(), the parser state is initialised again,
\* cns and aux_file_map are new and self.component_index is 0 (line 711).
WriteAgain ==
    /\ pc \in {"wdone", "werror", "wcrash"}
    /\ earlier = NoCall
    /\ earlier' = [status |-> ws.status, cns |-> ws.cns,
                   aux_file_map |-> ws.aux_file_map, log |-> form.log]
    /\ Recalled(Returned(ParseLines([Restarted(ps) EXCEPT !.line_no = SentinelAt(source)],
                                      SecondLoop(source, FALSE))))
    /\ form' = [form EXCEPT !.log = <<>>]
    /\ UNCHANGED <<source, sq>>

\* The variables after a turn that left the engine in state m, for form
\* data that holds what the earlier call, if any, found in it.
TurnedSame(m) == SameFormData(m.form.log, earlier.log) /\ Turned(m)

\* One turn of write()'s scan loop, in the first call or the second.
WriteStepSame ==
    /\ pc = "wscan"
    /\ \E d \in Draws(form) :
          TurnedSame(WriteTurn([ps |-> ps, ws |-> ws, form |-> form], model, source, d))
    /\ UNCHANGED <<source, model, sq, earlier>>

NextTwice == AddTwice \/ WriteStart \/ WriteAgain \/ WriteStepSame

SpecTwice == TwiceInit /\ [][NextTwice]_vars

----------------------------------------------------------------------------
(* Claims about the tree builder and the squasher.                         *)

\* The set a component's parent allows: the declared levels at the root.
ParentLevels(components, names, i) ==
    IF components[i].parent = 0 THEN Range(names)
    ELSE components[components[i].parent].accesslevels

\* The open sections a component created from `line` is installed under:
\* a section header first closes every section of its depth or deeper.
SectionsFor(st, line) ==
    IF line.kind = "section_start"
    THEN PopTo(st.current_sections, line.indentation)
    ELSE st.current_sections

\* The set a component created from `line` inherits.
InheritedFor(st, line) ==
    LET open == SectionsFor(st, line)
    IN  IF Len(open) > 0 THEN st.components[open[Len(open)].component].accesslevels
        ELSE Range(st.accesslevel_names)

\* The set the pending attributes ask for, before the inheritance check.
RequestedLevels(st, line) ==
    LET a == st.current_attributes
        names == st.accesslevel_names
        kept == {v \in InheritedFor(st, line) :
                    /\ a.accesslevel_index_min # -1 => IndexOf(names, v) >= a.accesslevel_index_min
                    /\ a.accesslevel_index_max # -1 => IndexOf(names, v) <= a.accesslevel_index_max}
    IN  (kept \cup a.accesslevel_includes) \ a.accesslevel_excludes

LevelsWithinParent(components, names) ==
    \A i \in 1..Len(components) :
        components[i].accesslevels \subseteq ParentLevels(components, names, i)

\* C1: at every point of a parse, and in the forest parse() returns, every
\* section, parameter and paragraph has an accesslevels set that is a subset
\* of its parent section's set (of the declared levels for a root component);
\* and a section or parameter line whose pending attributes ask for a level
\* its parent lacks aborts the parse with a fatal error.
C1_AccessWithinParent ==
    /\ [](/\ LevelsWithinParent(ps.components, ps.accesslevel_names)
          /\ pc = "parsed" => LevelsWithinParent(model, ps.accesslevel_names))
    /\ [][(/\ pc = "scan"
           /\ source' # source
           /\ source'[Len(source')].kind \in {"parameter", "section_start"}
           /\ ~(RequestedLevels(ps, source'[Len(source')])
                  \subseteq InheritedFor(ps, source'[Len(source')])))
          => pc' = "error"]_vars

\* C1 witness: a returned forest in which a nested component holds strictly
\* fewer levels than the section around it.
C1_Witness ==
    /\ pc = "parsed"
    /\ \E i \in 1..Len(model) :
          /\ model[i].parent # 0
          /\ model[i].accesslevels # {}
          /\ model[i].accesslevels # model[model[i].parent].accesslevels
          /\ model[i].accesslevels \subseteq model[model[i].parent].accesslevels

RECURSIVE InSubtree(_, _, _)
\* Component i lies beneath section s.
InSubtree(components, i, s) ==
    IF components[i].parent = 0 THEN FALSE
    ELSE components[i].parent = s \/ InSubtree(components, components[i].parent, s)

HasVisibleParameter(components, s) ==
    \E i \in 1..Len(components) :
        /\ components[i].type = "parameter"
        /\ ~components[i].hidden
        /\ InSubtree(components, i, s)

\* C8: after parse() returns, every section of the forest is hidden if and
\* only if no parameter beneath it, at any depth, is visible.
C8_HiddenIffNoVisibleParameter ==
    pc = "parsed" =>
        \A s \in 1..Len(model) :
            model[s].type = "section" =>
                (model[s].hidden <=> ~HasVisibleParameter(model, s))

\* The set the squasher is specified to return.
SquashSet(i) ==
    LET inh == IF i.inherited.given THEN i.inherited.levels ELSE Range(i.names)
        kept == {v \in inh :
                    /\ i.minimum_index # -1 => IndexOf(i.names, v) >= i.minimum_index
                    /\ i.maximum_index # -1 => IndexOf(i.names, v) <= i.maximum_index}
    IN  (kept \cup i.includes) \ i.excludes

\* C9: with warnings not fatal, squash returns exactly ((inherited filtered
\* by the rank bounds) union includes) minus excludes when that set is a subset
\* of inherited, and raises the parser's fatal error otherwise.
C9_SquashExact ==
    (pc = "squash" /\ sq.status # "drawn" /\ ~sq.fatal) =>
        LET inh == IF sq.inherited.given THEN sq.inherited.levels ELSE Range(sq.names)
        IN  IF SquashSet(sq) \subseteq inh
            THEN sq.status = "ok" /\ sq.levels = SquashSet(sq)
            ELSE sq.status = "error"

\* C10: after a successful parse() of a template that declares at least one
\* access level, every component's accesslevels set is non-empty.
C10_AccessNonEmpty ==
    (pc = "parsed" /\ Len(ps.accesslevel_names) > 0) =>
        \A i \in 1..Len(model) : model[i].accesslevels # {}

\* The line the last Feed step read.
LastLine(src) == src[Len(src)]

\* C11: an access-level declaration that comes after the first section,
\* parameter or committed paragraph aborts the parse with a fatal error, and
\* the list of declared levels never changes once the forest is non-empty.
C11_LevelsBeforeComponents ==
    /\ [][(/\ pc = "scan"
           /\ source' # source
           /\ LastLine(source').kind = "accesslevel"
           /\ Len(ps.components) > 0)
          => pc' = "error"]_vars
    /\ [][Len(ps.components) > 0
          => ps'.accesslevel_names = ps.accesslevel_names]_vars

\* C11 witness: a declaration read after a root paragraph was committed
\* aborted the parse.
C11_Witness ==
    /\ pc = "error"
    /\ LastLine(source).kind = "accesslevel"
    /\ Len(ps.accesslevel_names) > 0
    /\ Len(ps.components) > 0
    /\ ps.components[1].type = "paragraph"

\* The source with everything before its sentinel left out.
FromSentinel(lines) == SubSeq(lines, SentinelAt(lines), Len(lines))

\* C12: lines at or before the sentinel produce nothing: the forest
\* parse() returns for a one-shot stream is the forest of the lines after the
\* sentinel alone, and the preliminary parse that write() runs on its line
\* list yields the same forest as parse() on the stream.
C12_SentinelStartsParse ==
    /\ pc = "parsed" => model = parse(FromSentinel(source), ps.fatal_warnings, TRUE).forest
    /\ pc = "wscan" => model = parse(source, ps.fatal_warnings, TRUE).forest

\* C13: on a source without the sentinel, parse() and write() end in the
\* parser's fatal error, with no model and no output.
C13_NoSentinelAborts ==
    ~HasSentinel(source) =>
        /\ pc \in {"source", "error", "werror"}
        /\ model = <<>>
        /\ ws.cns = <<>>

\* C13 witness: write() gave up on a source that holds a parameter line
\* but no sentinel.
C13_Witness ==
    /\ pc = "werror"
    /\ ~HasSentinel(source)
    /\ \E i \in 1..Len(source) : source[i].kind = "parameter"

\* The repeatable sections a component created from `line` lies beneath.
RepeatableAbove(st, line) ==
    {st.components[SectionsFor(st, line)[i].component] : i \in 1..Len(SectionsFor(st, line))}
    \cap {c \in Range(st.components) : c.repeat}

\* The pending attributes make the component created from `line` break one
\* of the three rules.
BreaksRepeatRules(st, line) ==
    LET a == st.current_attributes
    IN  \/ a.repeat /\ ~a.has_repeat_index
        \/ a.repeat /\ line.kind = "parameter" /\ ~Finds(line.name, a.repeat_index)
        \/ a.repeat /\ \E s \in RepeatableAbove(st, line) : s.repeat_index = a.repeat_index

----------------------------------------------------------------------------
(* Claims about write().                                                   *)

WriteEnded == pc \in {"wdone", "werror", "wcrash"}

\* The source line a section or parameter component was created from: the
\* k-th header (parameter line) makes the k-th section (parameter).
LineOf(components, src, c) ==
    LET kind == IF components[c + 1].type = "section" THEN "section_start" ELSE "parameter"
        k == Cardinality({i \in 1..(c + 1) : components[i].type = components[c + 1].type})
        lines == SelectSeq([i \in 1..Len(src) |-> i], LAMBDA i : src[i].kind = kind)
    IN  src[lines[k]]

\* The output lines made from source line `line`.
CopiesOf(cns, line) == SelectSeq(cns, LAMBDA l : l.no = line.no)

\* Every instance read so far is the one a well-formed form stores there:
\* it names its own component and its repetition count is within bounds.
WellFormed(components, log) ==
    \A i \in 1..Len(log) :
        /\ log[i].component_index = log[i].of
        /\ CountAllowed(components[log[i].of + 1], log[i].repetitions)

\* The instances read of component c, in reading order.
ReadsOf(log, c) == SelectSeq(log, LAMBDA e : e.of = c)

\* C2: round trip.  write() with identity form data (one repetition per
\* instance, every value the template default, the most permissive declared
\* level) returns the lines of the template, in order, none dropped,
\* duplicated or moved.
C2_RoundTrip ==
    (WriteEnded /\ form.identity) => (pc = "wdone" /\ ws.cns = source)

\* C3: for a visible repeatable section S at the root with N stored
\* repetitions in well-formed form data, write() returns and the output holds
\* S's header N times, the k-th copy with S's token replaced by k.
C3_SectionRepeated ==
    (WriteEnded /\ WellFormed(model, form.log)) =>
        \A i \in 1..Len(form.log) :
            LET e == form.log[i]
                S == model[e.of + 1]
                header == LineOf(model, source, e.of)
            IN  (e.kind = "section" /\ S.repeat /\ Len(e.at) = 1) =>
                    /\ pc = "wdone"
                    /\ CopiesOf(ws.cns, header) =
                         [k \in 1..e.repetitions |->
                             [header EXCEPT !.head = Sub(@, S.repeat_index, Str(k))]]

RECURSIVE NestedCopies(_, _, _, _, _)
\* The copies of nested header `header` for the repetitions i.. of S, given
\* the instances read of T in order.
NestedCopies(header, tokenS, tokenT, reads, i) ==
    IF i > Len(reads) THEN <<>>
    ELSE [j \in 1..reads[i].repetitions |->
             [header EXCEPT !.head = Sub(Sub(@, tokenS, Str(i)), tokenT, Str(j))]]
         \o NestedCopies(header, tokenS, tokenT, reads, i + 1)

\* C4: for a repeatable section S at the root with N stored repetitions whose
\* i-th repetition stores M_i repetitions of a repeatable section T directly
\* beneath it (T holding a visible parameter), write() returns, T's instance is read once per repetition of
\* S, and the output holds T's header M_1 + ... + M_N times, ordered by
\* (i, j), copy (i, j) with S's token replaced by i and T's token by j.
C4_NestedRepeated ==
    (WriteEnded /\ WellFormed(model, form.log)) =>
        \A s \in 1..Len(form.log) : \A T \in 1..Len(model) :
            LET e == form.log[s]
                S == model[e.of + 1]
                reads == ReadsOf(form.log, T - 1)
            IN  (/\ e.kind = "section" /\ S.repeat /\ Len(e.at) = 1
                 /\ model[T].type = "section" /\ model[T].repeat /\ ~model[T].hidden
                 /\ model[T].parent = e.of + 1
                 /\ HasVisibleParameter(model, T)
                 /\ e.repetitions > 0) =>
                    /\ pc = "wdone"
                    /\ Len(reads) = e.repetitions
                    /\ CopiesOf(ws.cns, LineOf(model, source, T - 1)) =
                         NestedCopies(LineOf(model, source, T - 1), S.repeat_index,
                                      model[T].repeat_index, reads, 1)

\* C5: for a visible repeatable parameter at the root to which the submitted
\* level has access and whose instance stores k repetitions within bounds,
\* the output of a finished write() holds k parameter lines made from its
\* line, in stored order, the i-th named with the parameter's token replaced
\* by i and carrying the i-th stored value.
C5_ParameterRepeated ==
    (pc = "wdone" /\ WellFormed(model, form.log)) =>
        \A i \in 1..Len(form.log) :
            LET e == form.log[i]
                P == model[e.of + 1]
                line == LineOf(model, source, e.of)
                copies == CopiesOf(ws.cns, line)
            IN  (e.kind = "parameter" /\ P.repeat /\ e.has_access /\ Len(e.at) = 1) =>
                    /\ Len(copies) = e.repetitions
                    /\ \A k \in 1..Len(copies) :
                          /\ copies[k].name = Sub(line.name, P.repeat_index, Str(k))
                          /\ copies[k].value = StoredValue(form, model, e, k - 1)

\* The instance the step has just read, if it read one.
ReadsInstance == Len(form'.log) = Len(form.log) + 1
LastRead(f) == f.log[Len(f.log)]

\* C6: when the scan reads the instance of a visible parameter to which the
\* form, submitted at a declared level, has no access (the instance naming
\* the component the scan is at),
\* the step raises no error whatever the instance stores, and emits
\* max(1, repeat_min) lines for a repeatable parameter, one line otherwise.
C6_NoAccessIgnoresInstance ==
    [][(/\ pc = "wscan"
        /\ ReadsInstance
        /\ LastRead(form').kind = "parameter"
        /\ ~LastRead(form').has_access
        /\ form.level \in Range(ps.accesslevel_names)
        /\ LastRead(form').component_index = LastRead(form').cursor
        /\ LastRead(form').of = LastRead(form').cursor)
       => LET P == model[LastRead(form').of + 1]
              line == LineOf(model, source, LastRead(form').of)
              lines == IF P.repeat /\ P.repeat_min > 1 THEN P.repeat_min ELSE 1
          IN  /\ pc' = "wscan"
              /\ Len(CopiesOf(ws'.cns, line)) = Len(CopiesOf(ws.cns, line)) + lines]_vars

\* C7: when the scan, at a visible section header or parameter line under an
\* iterator with at least one repetition, reads an instance whose
\* component_index differs from the component cursor, write() ends there
\* with the fatal error, and an aborted write() goes no further: it returns
\* neither lines nor a rename map.
C7_MismatchAborts ==
    /\ [][(pc = "wscan" /\ ReadsInstance
           /\ LastRead(form').component_index # LastRead(form').cursor)
          => (pc' = "werror" /\ ws'.status = "error")]_vars
    /\ [][pc # "werror"]_vars

\* C7 witness: inside a section that was entered, a parameter instance with
\* a foreign component_index has ended the write.
C7_Witness ==
    /\ pc = "werror"
    /\ Len(form.log) >= 2
    /\ LastRead(form).kind = "parameter"
    /\ LastRead(form).component_index # LastRead(form).cursor
    /\ Len(LastRead(form).at) >= 2

\* C15: where write() reads the instance of a visible section or parameter
\* (the enclosing iterator has a repetition) and n is the number of stored
\* repetitions, it aborts with the fatal error exactly when n is below
\* repeat_min or above a set repeat_max for a repeatable component, and
\* exactly when n is not 1 for any other; the instance is the one the scan
\* expects, since another one aborts whatever its count.
C15_CountChecked ==
    [][(ReadsInstance /\ LastRead(form').component_index = LastRead(form').cursor)
       => LET component == PyAt(model, LastRead(form').cursor)
              n == LastRead(form').repetitions
          IN  pc' = "werror" <=>
                 IF component.repeat
                 THEN \/ n < component.repeat_min
                      \/ component.repeat_max # -1 /\ n > component.repeat_max
                 ELSE n # 1]_vars

\* C15 witness: write() gave up at a repeatable parameter that allows one
\* value at most and came with two.
C15_Witness ==
    /\ pc = "werror"
    /\ Len(form.log) > 0
    /\ LastRead(form).component_index = LastRead(form).cursor
    /\ LastRead(form).kind = "parameter"
    /\ PyAt(model, LastRead(form).cursor).repeat
    /\ PyAt(model, LastRead(form).cursor).repeat_max = 1
    /\ LastRead(form).repetitions = 2

----------------------------------------------------------------------------
(* Claims about unknown keys and warnings.                                 *)

KnownKeys ==
    LevelKeys \cup {"hidden", "multi-index", "multi-min", "multi-max", "type"}

\* The component the last step created.
LastComponent(st) == st.components[Len(st.components)]

\* The component dictionary holds `key` with `value`.
HoldsKey(component, key, value) ==
    CASE key = "label" -> component.label = <<value>>
      [] key = "repeat" -> FALSE
      [] OTHER -> IsIn(<<key, value>>, component.custom)

\* The line would be read without an abort if no unknown key were pending.
FineWithoutCustom(st, line) ==
    ParseLine([st EXCEPT !.current_attributes.custom_attributes = <<>>], line).status = "ok"

\* C16: with fatal-warnings off, a hash-attribute line with a key that is
\* not a known key never aborts the parse, neither where it is read nor at
\* the section or parameter installed next, and that component holds the key
\* with its value.
C16_UnknownKeyKept ==
    /\ [][(/\ pc = "scan" /\ ~ps.fatal_warnings /\ source' # source
           /\ LastLine(source').kind = "hash_attributes"
           /\ \A i \in 1..Len(LastLine(source').attributes) :
                 LastLine(source').attributes[i].key \notin KnownKeys)
          => pc' = "scan"]_vars
    /\ [][(/\ pc = "scan" /\ ~ps.fatal_warnings /\ source' # source
           /\ LastLine(source').kind \in {"parameter", "section_start"}
           /\ Len(ps.current_attributes.custom_attributes) > 0
           /\ FineWithoutCustom(ps, LastLine(source')))
          => /\ pc' = "scan"
             /\ \A i \in 1..Len(ps.current_attributes.custom_attributes) :
                   HoldsKey(LastComponent(ps'),
                            ps.current_attributes.custom_attributes[i][1],
                            ps.current_attributes.custom_attributes[i][2])]_vars

\* What aborts the installation of the component of `line` whatever the
\* warning policy: levels the parent lacks, a rank bound on an empty set, an
\* unknown key that is a key of the component or `repeat`.
InstallAborts(st, line) ==
    LET a == st.current_attributes
        type == IF line.kind = "parameter" THEN "parameter" ELSE "section"
    IN  \/ ~(RequestedLevels(st, line) \subseteq InheritedFor(st, line))
        \/ /\ RequestedLevels(st, line) = {}
           /\ a.accesslevel_index_min # -1 \/ a.accesslevel_index_max # -1
        \/ CustomKeys(a) \cap (ComponentKeys(Component(type)) \cup {"repeat"}) # {}

\* A rank bound of the pending attributes lies outside the ranks left.
BoundWithoutEffect(st, line) ==
    LET a == st.current_attributes
        ranks == {IndexOf(st.accesslevel_names, n) : n \in RequestedLevels(st, line)}
    IN  /\ ranks # {}
        /\ \/ a.accesslevel_index_min # -1 /\ a.accesslevel_index_min < SetMin(ranks)
           \/ a.accesslevel_index_max # -1 /\ a.accesslevel_index_max > SetMax(ranks)

\* Reading `line` in state st meets one of the conditions the parser warns
\* about, and nothing else is wrong with the line.
Recoverable(st, line) ==
    \/ line.kind \notin (HandledKinds \cup {"blank"})
    \/ /\ line.kind = "hash_attributes"
       /\ \A i \in 1..Len(line.attributes) : line.attributes[i].key \notin KnownKeys
    \/ /\ line.kind = "parameter"
       /\ Len(st.current_paragraph) = 0
       /\ ~InstallAborts(st, line)
    \/ /\ line.kind \in {"parameter", "section_start"}
       /\ BoundWithoutEffect(st, line)
       /\ ~InstallAborts(st, line)

C18_OnlyParserErrors == pc \notin {"crash", "wcrash"}

Count(string, symbols) == Len(SelectSeq(string, LAMBDA x : x \in symbols))

\* C19: with no type override and no choice list pending, a parameter's
\* datatype is integer iff its default is a non-empty run of digits, float iff
\* it consists of digits with exactly one dot, and string otherwise; with an
\* override pending the datatype is the override.
C19_DatatypeGuess ==
    [][(/\ pc = "scan" /\ pc' = "scan" /\ source' # source
        /\ LastLine(source').kind = "parameter")
       => LET default == LastLine(source').value
              digits == Count(default, Range(NumStr))
              dots == Count(default, {"."})
          IN  LastComponent(ps').datatype =
                 IF ps.current_attributes.datatype # "" THEN ps.current_attributes.datatype
                 ELSE IF digits = Len(default) /\ digits > 0 THEN "integer"
                 ELSE IF digits + dots = Len(default) /\ dots = 1 /\ digits > 0 THEN "float"
                 ELSE "string"]_vars

\* The pending attributes hold no level attribute but, possibly, a minimum.
OnlyLevelMin(a) ==
    /\ a.accesslevel_index_max = -1
    /\ a.accesslevel_includes = {}
    /\ a.accesslevel_excludes = {}

\* C20: with distinct levels L1..Ln declared, a root section that carries
\* only level-min = Lk gets exactly {Lk..Ln}; a parameter that carries no
\* level attribute and a paragraph get exactly the set of the section they lie
\* in (levels easy, expert; a section with level-min=expert; a parameter with
\* default 5: both sets are {expert}, the datatype is integer, the default 5).
C20_MinAndInherit ==
    /\ [][(/\ pc = "scan" /\ source' # source
           /\ LastLine(source').kind = "section_start"
           /\ Len(SectionsFor(ps, LastLine(source'))) = 0
           /\ Cardinality(Range(ps.accesslevel_names)) = Len(ps.accesslevel_names)
           /\ OnlyLevelMin(ps.current_attributes)
           /\ ps.current_attributes.accesslevel_index_min # -1)
          => /\ pc' = "scan"
             /\ LastComponent(ps').accesslevels =
                   {ps.accesslevel_names[j] :
                       j \in (ps.current_attributes.accesslevel_index_min + 1)
                                ..Len(ps.accesslevel_names)}]_vars
    /\ [][(/\ pc = "scan" /\ pc' = "scan" /\ source' # source
           /\ LastLine(source').kind = "parameter"
           /\ Len(ps.current_sections) > 0
           /\ OnlyLevelMin(ps.current_attributes)
           /\ ps.current_attributes.accesslevel_index_min = -1)
          => /\ LastComponent(ps').type = "parameter"
             /\ LastComponent(ps').accesslevels = TopSection(ps).accesslevels
             /\ LastComponent(ps').default = LastLine(source').value
             /\ LastComponent(ps').datatype = "integer"]_vars
    /\ [][(/\ pc = "scan" /\ source' # source
           /\ LastLine(source').kind = "blank"
           /\ Len(ps.current_paragraph) > 0
           /\ Len(ps.current_sections) > 0)
          => /\ pc' = "scan"
             /\ LastComponent(ps').type = "paragraph"
             /\ LastComponent(ps').accesslevels = TopSection(ps).accesslevels]_vars

\* C20 witness: the forest of `easy, expert; #level-min=expert; section;
\* parameter with default 5`.
C20_Witness ==
    /\ pc = "parsed"
    /\ ps.accesslevel_names = <<"easy", "expert">>
    /\ Len(source) = 6
    /\ source[4] = AttrLine(<<Attr("level-min", "expert")>>)
    /\ Len(model) = 2
    /\ model[1].type = "section" /\ model[1].accesslevels = {"expert"}
    /\ model[2].type = "parameter" /\ model[2].parent = 1
    /\ model[2].accesslevels = {"expert"}
    /\ model[2].datatype = "integer" /\ model[2].default = <<"5">>

\* The open iterators that are in a repetition after the first and whose
\* header line the scan has read again.
Rescanned(its, st) ==
    {i \in 2..Len(its) : its[i].repetition >= 1 /\ st.line_no >= its[i].line_no}

\* The sections beneath the top of a section stack.
Beneath(sections) == SubSeq(sections, 1, Len(sections) - 1)

\* The parser's stack holds, beneath the section of iterator `it`, the
\* sections that were there when the iterator was made.
SameAncestors(it, st) ==
    /\ Len(st.current_sections) >= Len(it.current_sections)
    /\ SubSeq(st.current_sections, 1, Len(it.current_sections) - 1)
         = Beneath(it.current_sections)

\* C21: while the lines of a section S are scanned for a repetition k >= 2,
\* the sections beneath S on the parser's stack are the ones that were there
\* when S was first entered, also when the header that closed S is shallower
\* than S.
C21_StackRestored ==
    pc = "wscan" =>
        \A i \in Rescanned(ws.section_its, ps) : SameAncestors(ws.section_its[i], ps)

\* The scan is about to read a section header or a parameter line.
AtComponentLine ==
    /\ pc = "wscan"
    /\ ps.line_no < Len(source)
    /\ source[ps.line_no + 1].kind \in {"section_start", "parameter"}

\* The component cursor designates a section or parameter of the forest the
\* preliminary parse returned.
CursorAtComponent ==
    /\ ws.component_index \in 0..(Len(model) - 1)
    /\ model[ws.component_index + 1].type \in {"section", "parameter"}

\* C22: whenever the scan is about to process a section header or a
\* parameter line, on the first pass and after every rewind, the component
\* cursor designates the component the preliminary parse made from that very
\* line.
C22_CursorAtLine ==
    AtComponentLine =>
        /\ CursorAtComponent
        /\ LineOf(model, source, ws.component_index).no = ps.line_no + 1

\* The open section iterators that have a stored repetition left.
Repeatable(its) == {i \in 2..Len(its) : its[i].repetition < its[i].repetitions - 1}

\* C23: at end of input the innermost open iterator with a repetition left
\* is rewound, the ones above it being popped, and write() returns with all
\* sections closed if there is none.  The turn that rewinds reads the
\* section's header again with the cursor at the section's component index,
\* as after a rewind triggered by a header, so it leaves the cursor one past
\* that index.
C23_EndOfInput ==
    [][(pc = "wscan" /\ ps.line_no >= Len(source)) =>
          IF Repeatable(ws.section_its) = {}
          THEN pc' = "wdone" /\ Len(ws'.section_its) = 1
          ELSE LET i == SetMax(Repeatable(ws.section_its))
               IN  /\ pc' = "wscan"
                   /\ Len(ws'.section_its) = i
                   /\ ws'.section_its[i].repetition = ws.section_its[i].repetition + 1
                   /\ ps'.line_no = ws.section_its[i].line_no
                   /\ ws'.component_index = ws.section_its[i].component_index + 1]_vars

Writing == pc \in {"wscan", "wdone", "werror", "wcrash"}

\* The iterator stack is well formed: the root block at the bottom, depths
\* strictly increasing, every repetition index within the stored repetitions.
StackWellFormed(its) ==
    /\ Len(its) >= 1
    /\ its[1].level = 0 /\ its[1].component_index = -1
    /\ \A i \in 1..(Len(its) - 1) : its[i].level < its[i + 1].level
    /\ \A i \in 1..Len(its) :
          its[i].repetition < (IF its[i].repetitions > 1 THEN its[i].repetitions ELSE 1)

\* C24: at every step of write() the iterator stack is non-empty with the
\* root block (depth 0) at the bottom, its depths strictly increase and
\* every repetition index is less than max(1, stored repetitions); when
\* write() returns only the root block is left.
C24_IteratorStack ==
    /\ Writing => StackWellFormed(ws.section_its)
    /\ pc = "wdone" => Len(ws.section_its) = 1

\* How often the scan loop has read source line l.
ScansOf(l) == Cardinality({i \in 1..Len(ws.scanned) : ws.scanned[i] = l})

\* The section (1-based place in the forest, 0: none) a source line lies
\* in: the one of the last header up to and including the line.
SectionAt(l) ==
    LET hs == {h \in 1..l : source[h].kind = "section_start"}
    IN  IF hs = {} THEN 0
        ELSE CHOOSE c \in 1..Len(model) :
                 /\ model[c].type = "section"
                 /\ Cardinality({j \in 1..c : model[j].type = "section"}) = Cardinality(hs)

\* The largest number of repetitions read for section c; 1 if its instance
\* was never read.
StoredCount(c) ==
    LET reads == ReadsOf(form.log, c - 1)
    IN  IF Len(reads) = 0 THEN 1
        ELSE SetMax({reads[i].repetitions : i \in 1..Len(reads)})

RECURSIVE CountProduct(_)
\* The product of the stored repetition counts of section c and the
\* sections around it.
CountProduct(c) == IF c = 0 THEN 1 ELSE StoredCount(c) * CountProduct(model[c].parent)

RECURSIVE ExtraRepetitions(_)
\* The stored repetitions beyond the first of the section instances read.
ExtraRepetitions(log) ==
    IF Len(log) = 0 THEN 0
    ELSE (IF log[1].kind = "section" /\ log[1].repetitions > 1
          THEN log[1].repetitions - 1 ELSE 0) + ExtraRepetitions(Tail(log))

\* A turn of the scan loop that does not end on a later line than it began.
Rewinds == pc = "wscan" /\ pc' = "wscan" /\ ps'.line_no <= ps.line_no

\* An iterator that stays open has moved on to a later repetition.
RepetitionGrows ==
    \E i \in 2..Len(ws.section_its) :
        /\ i <= Len(ws'.section_its)
        /\ ws'.section_its[i].line_no = ws.section_its[i].line_no
        /\ ws'.section_its[i].repetition > ws.section_its[i].repetition

\* A turn of the scan loop ends write() or reads one more line.
TurnReadsLine == pc = "wscan" => (pc' # "wscan" \/ Len(ws'.scanned) = Len(ws.scanned) + 1)

\* C25 as stated: write() ends (every turn of its loop ends it or reads a
\* line, and the lines read are bounded), every rewind moves an open
\* iterator to a later repetition, and no source line is scanned more often
\* than the product of the stored repetition counts of the sections
\* enclosing it.
C25_ProductBound ==
    /\ [](Writing => \A l \in 1..Len(source) : ScansOf(l) <= CountProduct(SectionAt(l)))
    /\ [][TurnReadsLine]_vars
    /\ [][Rewinds => RepetitionGrows]_vars

\* C25, amended: write() ends (returns or aborts): every turn of its loop
\* ends it or reads a line, every rewind moves an open iterator to a later
\* repetition, and no source line is scanned more often than once plus the
\* number of stored repetitions beyond the first of the section instances
\* read.
C25_Terminates ==
    /\ [](Writing => \A l \in 1..Len(source) : ScansOf(l) <= 1 + ExtraRepetitions(form.log))
    /\ [][TurnReadsLine]_vars
    /\ [][Rewinds => RepetitionGrows]_vars

\* C25 witness: write() has returned after reading some line three times.
C25_Witness ==
    /\ pc = "wdone"
    /\ \E l \in 1..Len(source) : ScansOf(l) = 3

\* The sections of a stack that lie above depth d.
Above(sections, d) == SelectSeq(sections, LAMBDA e : e.level < d)

\* Depths strictly increase from the bottom of a section stack to its top.
DepthsIncrease(sections) ==
    \A i \in 1..(Len(sections) - 1) : sections[i].level < sections[i + 1].level

\* The step has read a section header of depth d without an error.
HeaderRead(d) ==
    /\ pc = "scan" /\ pc' = "scan"
    /\ Len(source') = Len(source) + 1
    /\ source'[Len(source')].kind = "section_start"
    /\ source'[Len(source')].indentation = d

\* The components the step has added are children of sections that are
\* open after it (or roots).
AddedUnderOpen ==
    /\ SubSeq(ps'.components, 1, Len(ps.components)) = ps.components
    /\ \A c \in (Len(ps.components) + 1)..Len(ps'.components) :
          ps'.components[c].parent \in
              {0} \cup {ps'.current_sections[i].component : i \in 1..Len(ps'.current_sections)}

\* C26: a section header of depth d leaves on the stack the open sections
\* of depth less than d with the new section on top of them, depths
\* strictly increasing; the new section is the last component made and the
\* child of the entry beneath it (a root if there is none); and no step
\* adds a child to a section that is no longer open.
C26_StackDiscipline ==
    /\ [][\A d \in {2, 3} : HeaderRead(d) =>
            LET kept == Above(ps.current_sections, d)
                new == Len(ps'.components)
            IN  /\ new = Len(ps.components) + 1
                /\ ps'.components[new].type = "section"
                /\ ps'.current_sections = Append(kept, [level |-> d, component |-> new])
                /\ DepthsIncrease(ps'.current_sections)
                /\ ps'.components[new].parent =
                       IF Len(kept) = 0 THEN 0 ELSE kept[Len(kept)].component]_vars
    /\ [][(pc = "scan" /\ pc' = "scan") => AddedUnderOpen]_vars

\* C26 witness: the headers S, T, S were read: the second S has popped both
\* open sections and is a new root.
C26_Witness ==
    /\ pc = "scan"
    /\ Len(source) = 4
    /\ source[2].kind = "section_start" /\ source[2].indentation = 2
    /\ source[3].kind = "section_start" /\ source[3].indentation = 3
    /\ source[4].kind = "section_start" /\ source[4].indentation = 2
    /\ ps.current_sections = <<[level |-> 2, component |-> 3]>>
    /\ ps.components[3].parent = 0

RECURSIVE Denied(_, _, _)
\* Component c (1-based, 0: the root block) or a section around it, at any
\* depth, does not list `level` among its accesslevels.
Denied(components, c, level) ==
    IF c = 0 THEN FALSE
    ELSE level \notin components[c].accesslevels
         \/ Denied(components, components[c].parent, level)

\* The lines the step has added to the output.
NewLines == SubSeq(ws'.cns, Len(ws.cns) + 1, Len(ws'.cns))

\* The copies of source line number `no` among them.
NewCopies(no) == SelectSeq(NewLines, LAMBDA l : l.no = no)

\* The step has read the instance of a parameter and gone on.
ParameterRead ==
    /\ pc = "wscan" /\ pc' = "wscan"
    /\ ReadsInstance
    /\ LastRead(form').kind = "parameter"

\* C27: a visible parameter that lies, at any depth, inside a section whose
\* accesslevels lack the submitted level (or whose own accesslevels lack
\* it) is emitted with its template default, placeholders filled in,
\* whatever value the form stores for it; and an iterator has access only if the
\* iterator beneath it has and the level is among its section's
\* accesslevels.
C27_NoAccessKeepsDefault ==
    /\ [][ParameterRead =>
            LET e == LastRead(form')
                P == model[e.of + 1]
                copies == NewCopies(LineOf(model, source, e.of).no)
            IN  Denied(model, e.of + 1, form.level) =>
                    \A k \in 1..Len(copies) :
                        copies[k].value =
                            Escape(replace_repetition_placeholders(
                                       P.default, ws.section_its, model,
                                       IF P.repeat THEN e.of ELSE -1, k - 1))]_vars
    /\ [](Writing =>
            \A i \in 2..Len(ws.section_its) :
                ws.section_its[i].has_access =>
                    /\ ws.section_its[i - 1].has_access
                    /\ form.level \in model[ws.section_its[i].component_index + 1].accesslevels)

\* C27 witness: at level easy a parameter two sections deep inside a section
\* open to expert only was written with its default although the form
\* stores a value for it.
C27_Witness ==
    /\ pc = "wscan"
    /\ form.level = "easy" /\ ~form.identity
    /\ Len(form.log) >= 3
    /\ LastRead(form).kind = "parameter"
    /\ LastRead(form).repetitions = 1
    /\ Len(LastRead(form).at) = 3
    /\ model[1].accesslevels = {"expert"}
    /\ ws.cns[Len(ws.cns)].kind = "parameter"
    /\ ws.cns[Len(ws.cns)].value = <<"5">>

\* The iterators of a stack that store no repetition.
Empty(its) == {i \in 1..Len(its) : its[i].repetitions = 0}

\* C28: a turn of the scan that ends inside a section storing zero
\* repetitions (or inside a section nested in one), the turn that reads its
\* header included, adds no section header and no parameter line to the
\* output; and a turn that begins and ends inside such a section reads no
\* instance.
C28_ZeroRepetitionsSilent ==
    [][(pc = "wscan" /\ pc' = "wscan") =>
          /\ Empty(ws'.section_its) # {} =>
                \A k \in 1..Len(NewLines) :
                    NewLines[k].kind \notin {"section_start", "parameter"}
          /\ (\E i \in Empty(ws.section_its) :
                  /\ i <= Len(ws'.section_its)
                  /\ ws'.section_its[i] = ws.section_its[i])
                => form'.log = form.log]_vars

\* The component (0-based place in the forest) the preliminary parse made
\* from the section header or parameter line with number `no`.
ComponentOf(no) ==
    CHOOSE c \in 0..(Len(model) - 1) :
        /\ model[c + 1].type \in {"section", "parameter"}
        /\ LineOf(model, source, c).no = no

\* The line the turn has read.
LineRead == source[ws'.scanned[Len(ws'.scanned)]]

\* The turn has read the line of a hidden component of the given kind.
HiddenRead(kind) ==
    /\ pc = "wscan"
    /\ Len(ws'.scanned) = Len(ws.scanned) + 1
    /\ LineRead.kind = kind
    /\ model[ComponentOf(LineRead.no) + 1].hidden

\* The iterator stack once a header of depth d has closed the sections it
\* ends, and whether that was a jump back for a repetition.
StackClosedBy(d) ==
    IF d <= ws.section_its[Len(ws.section_its)].level
    THEN CloseSections(ws.section_its, d)
    ELSE [its |-> ws.section_its, jumped |-> FALSE]

\* C29: a turn that reads the header of a hidden section, and is not sent
\* back by it to repeat a section the header ends, adds to the output that
\* header and nothing else, the placeholders of the enclosing sections
\* filled in, moves the component cursor on by one and pushes no iterator:
\* the stack is the one the closing of the ended sections left, child
\* cursors and repetition indices included.
C29_HiddenSection ==
    [][(HiddenRead("section_start") /\ ~StackClosedBy(LineRead.indentation).jumped) =>
          /\ pc' = "wscan"
          /\ NewLines = <<[LineRead EXCEPT !.head = replace_repetition_placeholders(
                               @, StackClosedBy(LineRead.indentation).its, model, -1, -1)]>>
          /\ ws'.component_index = ws.component_index + 1
          /\ ws'.section_its = StackClosedBy(LineRead.indentation).its]_vars

\* C30: a turn that reads the line of a hidden parameter adds one copy of
\* it to the output, the value as in the template and the placeholders of
\* the enclosing repeated sections filled in in the name; it reads no
\* instance, moves the component cursor on by one and leaves the iterators,
\* child cursors included, as they are.
C30_HiddenParameter ==
    [][HiddenRead("parameter") =>
          /\ pc' = "wscan"
          /\ NewCopies(LineRead.no) =
                 <<[LineRead EXCEPT !.name =
                        ReplaceSections(@, Tail(ws.section_its), model)]>>
          /\ form'.log = form.log
          /\ ws'.component_index = ws.component_index + 1
          /\ ws'.section_its = ws.section_its]_vars

\* The entries of a dictionary kept as a sequence of pairs.
Entries(pairs) == {pairs[i] : i \in 1..Len(pairs)}

\* The emissions of parameter c (flattened index) a log records.
EmissionsOf(log, c) == Len(SelectSeq(log, LAMBDA e : e.kind = "parameter" /\ e.of = c))

\* A default from its first dot on.
FromFirstDot(default) ==
    LET dots == {i \in 1..Len(default) : default[i] = "."}
    IN  IF dots = {} THEN <<>> ELSE SubSeq(default, SetMin(dots), Len(default))

\* The turn has read the line of a visible parameter, emitted it and gone on.
VisibleParameterRead ==
    /\ pc = "wscan" /\ pc' \in {"wscan", "wdone"}
    /\ Len(ws'.scanned) = Len(ws.scanned) + 1
    /\ LineRead.kind = "parameter"
    /\ ~model[ComponentOf(LineRead.no) + 1].hidden
    /\ Len(form'.log) = Len(form.log) + 1

\* The repetitions of the parameter just emitted that the claim maps: the
\* parameter is a file, the level has access to it and to every section
\* around it, and the files table has the entry.
Mapped(c, copies, e) ==
    IF model[c + 1].datatype = "file" /\ ~Denied(model, c + 1, form.level)
    THEN {r \in 0..(Len(copies) - 1) : r \in e.uploaded}
    ELSE {}

\* The canonical name of repetition r of parameter c.
Canonical(c, r) ==
    replace_repetition_placeholders(model[c + 1].name, ws.section_its, model,
                                    IF model[c + 1].repeat THEN c ELSE -1, r)
    \o FromFirstDot(model[c + 1].default)

\* C31: a turn that emits a visible parameter looks the files table up
\* under the parameter's component index and, for a file parameter, under
\* the number of its earlier emissions as instance index; the file map
\* receives original -> canonical for exactly the repetitions of a file
\* parameter with access that have an entry there, the canonical name being
\* the name with placeholders filled in plus the default from its dot on;
\* those repetitions are emitted with the canonical name as value; and no
\* other turn of a write that goes on changes the file map.
C31_FileMap ==
    [][pc = "wscan" /\ pc' \in {"wscan", "wdone"} =>
          IF VisibleParameterRead
          THEN LET c == ComponentOf(LineRead.no)
                   e == LastRead(form')
                   copies == NewCopies(LineRead.no)
                   mapped == Mapped(c, copies, e)
                   received == {<<FileName(e, r), Canonical(c, r)>> : r \in mapped}
               IN  /\ e.cursor = c
                   /\ model[c + 1].datatype = "file" =>
                          e.local_instance_index = EmissionsOf(form.log, c)
                   /\ Entries(ws'.aux_file_map) =
                          {kv \in Entries(ws.aux_file_map) :
                              \A r \in mapped : kv[1] # FileName(e, r)}
                          \cup received
                   /\ \A r \in mapped : copies[r + 1].value = Canonical(c, r)
          ELSE ws'.aux_file_map = ws.aux_file_map]_vars

\* C31 witness: the second repetition of a section has emitted a file
\* parameter whose upload is in the table under instance index 1, and the
\* map holds its original name with the canonical name of that repetition.
C31_Witness ==
    /\ pc = "wscan"
    /\ Len(form.log) > 0
    /\ LastRead(form).kind = "parameter"
    /\ LastRead(form).local_instance_index = 1
    /\ 0 \in LastRead(form).uploaded
    /\ LastRead(form).has_access
    /\ \E i \in 1..Len(ws.aux_file_map) :
          /\ ws.aux_file_map[i][1] = <<LastRead(form).name, "1">>
          /\ ws.aux_file_map[i][2] = <<"f", "2", ".", "x">>
    /\ ws.cns[Len(ws.cns)].value = <<"f", "2", ".", "x">>

RECURSIVE PendingSettings(_)
\* The settings of the hash-attribute lines read since the last section
\* header or parameter line, in order: those given for the next component.
PendingSettings(lines) ==
    IF Len(lines) = 0 THEN <<>>
    ELSE LET last == lines[Len(lines)]
         IN  IF last.kind \in {"section_start", "parameter"} THEN <<>>
             ELSE PendingSettings(SubSeq(lines, 1, Len(lines) - 1))
                  \o (IF last.kind = "hash_attributes" THEN last.attributes ELSE <<>>)

\* The positions at which level-include or level-exclude mention `level`.
Mentions(settings, level) ==
    {i \in 1..Len(settings) :
        settings[i].key \in {"level-include", "level-exclude"} /\ settings[i].value = level}

\* C32: the pending include and exclude sets are disjoint at all times, and
\* while the parse goes on a level is pending in the include set exactly
\* when the last level-include or level-exclude that mentioned it since the
\* last component was a level-include, and in the exclude set exactly when
\* it was a level-exclude.
C32_IncludeExcludeDisjoint ==
    /\ ps.current_attributes.accesslevel_includes
           \cap ps.current_attributes.accesslevel_excludes = {}
    /\ pc = "scan" =>
          LET settings == PendingSettings(source)
              last(level) == settings[SetMax(Mentions(settings, level))].key
          IN  \A level \in LevelNames :
                 /\ level \in ps.current_attributes.accesslevel_includes
                       <=> /\ Mentions(settings, level) # {}
                           /\ last(level) = "level-include"
                 /\ level \in ps.current_attributes.accesslevel_excludes
                       <=> /\ Mentions(settings, level) # {}
                           /\ last(level) = "level-exclude"

\* C32 witness: a level excluded and then included for the same component
\* is pending in the include set only.
C32_Witness ==
    /\ pc = "scan"
    /\ Len(source) >= 3
    /\ source[Len(source) - 1] = AttrLine(<<Attr("level-exclude", "easy")>>)
    /\ source[Len(source)] = AttrLine(<<Attr("level-include", "easy")>>)
    /\ ps.current_attributes.accesslevel_includes = {"easy"}
    /\ ps.current_attributes.accesslevel_excludes = {}

\* The step has read a hash-attribute line with the one setting key=value.
SettingRead(key, value) ==
    /\ pc = "scan"
    /\ Len(source') = Len(source) + 1
    /\ source'[Len(source')] = AttrLine(<<Attr(key, value)>>)

\* The rank of a declared level.
Rank(level) == IndexOf(ps.accesslevel_names, level)

Declared(level) == level \in Range(ps.accesslevel_names)

\* C33: a pending rank minimum and a pending rank maximum that are both
\* set are in order; a level-min above the pending maximum and a level-max
\* below the pending minimum abort the parse; and so does a level-min,
\* level-max, level-include or level-exclude that names an undeclared level.
C33_RankBoundsOrdered ==
    /\ [](ps.current_attributes.accesslevel_index_min # -1
             /\ ps.current_attributes.accesslevel_index_max # -1
          => ps.current_attributes.accesslevel_index_min
                 <= ps.current_attributes.accesslevel_index_max)
    /\ [][\A value \in LevelNames :
             /\ SettingRead("level-min", value) /\ Declared(value)
                   /\ ps.current_attributes.accesslevel_index_max # -1
                   /\ Rank(value) > ps.current_attributes.accesslevel_index_max
                => pc' = "error"
             /\ SettingRead("level-max", value) /\ Declared(value)
                   /\ ps.current_attributes.accesslevel_index_min # -1
                   /\ Rank(value) < ps.current_attributes.accesslevel_index_min
                => pc' = "error"
             /\ \A key \in LevelKeys :
                   SettingRead(key, value) /\ ~Declared(value) => pc' = "error"]_vars

\* C33 witness: with a maximum pending, a level-min of a higher rank has
\* aborted the parse.
C33_Witness ==
    /\ pc = "error"
    /\ Len(source) >= 5
    /\ source[Len(source) - 1] = AttrLine(<<Attr("level-max", "easy")>>)
    /\ source[Len(source)] = AttrLine(<<Attr("level-min", "expert")>>)
    /\ ps.accesslevel_names = <<"easy", "expert">>
    /\ ps.current_attributes.accesslevel_index_max = 0

\* The positions at which the settings give `key`.
Given(settings, key) == {i \in 1..Len(settings) : settings[i].key = key}

\* The value of the last setting of `key`, as a number.
LastGiven(settings, key) == ToInt(settings[SetMax(Given(settings, key))].value)

\* The step has read a section header or a parameter line.
ComponentRead ==
    /\ pc = "scan"
    /\ Len(source') = Len(source) + 1
    /\ source'[Len(source')].kind \in {"section_start", "parameter"}

MultiKeys == {"multi-index", "multi-min", "multi-max"}

\* C34: a second multi-index for one component aborts the parse; a
\* multi-min or multi-max marks the pending component repeatable; a
\* component given multi-min or multi-max but no multi-index aborts the
\* parse when it is installed; an installed component that was given a
\* multi-* attribute is repeatable with repeat_min the given minimum or 1
\* and repeat_max the given maximum or none, and any other installed
\* component has repeat = false.
C34_RepeatAttributes ==
    /\ [][\A token \in {"AA", "BB", NoValue} :
             (/\ SettingRead("multi-index", token)
              /\ Given(PendingSettings(source), "multi-index") # {})
             => pc' = "error"]_vars
    /\ [][\A key \in {"multi-min", "multi-max"}, value \in {"2", "3"} :
             SettingRead(key, value) /\ pc' = "scan"
             => ps'.current_attributes.repeat]_vars
    /\ [][(/\ ComponentRead
            /\ \E key \in {"multi-min", "multi-max"} :
                   Given(PendingSettings(source), key) # {}
            /\ Given(PendingSettings(source), "multi-index") = {})
          => pc' # "scan"]_vars
    /\ [][ComponentRead /\ pc' = "scan" =>
             LET settings == PendingSettings(source)
                 component == ps'.components[Len(ps'.components)]
             IN  IF \E key \in MultiKeys : Given(settings, key) # {}
                 THEN /\ component.repeat
                      /\ component.repeat_min =
                            IF Given(settings, "multi-min") # {}
                            THEN LastGiven(settings, "multi-min") ELSE 1
                      /\ component.repeat_max =
                            IF Given(settings, "multi-max") # {}
                            THEN LastGiven(settings, "multi-max") ELSE -1
                 ELSE ~component.repeat]_vars

\* The attribute lines read since the last section header or parameter line.
PendingLines(lines) ==
    LET components == {i \in 1..Len(lines) : lines[i].kind \in {"section_start", "parameter"}}
        from == IF components = {} THEN 1 ELSE SetMax(components) + 1
    IN  SelectSeq(SubSeq(lines, from, Len(lines)),
                  LAMBDA l : l.kind \in {"hash_attributes", "plus_attributes"})

\* The component the step has installed, and the section it went into.
NewComponent == ps'.components[Len(ps'.components)]

\* C35: after every section header and every parameter line the parser
\* accepts, the pending-attributes record is empty; and a component read
\* with no attribute line since the component before it carries no
\* attribute of its own: it is not repeatable, has no custom key and no
\* options, its hidden flag and accesslevels are those of the section it
\* lies in (not hidden and all declared levels at the root), and its
\* datatype is the one guessed from the default.
C35_AttributesCleared ==
    /\ [][ComponentRead /\ pc' = "scan" => ps'.current_attributes = NoAttributes]_vars
    /\ [][ComponentRead /\ pc' = "scan" /\ Len(PendingLines(source)) = 0 =>
             LET c == NewComponent
             IN  /\ ~c.repeat /\ c.repeat_index = ""
                 /\ c.repeat_min = -1 /\ c.repeat_max = -1
                 /\ c.custom = <<>> /\ c.options = <<>>
                 /\ c.type = "parameter" => c.datatype = "integer"
                 /\ c.hidden = IF c.parent = 0 THEN FALSE ELSE ps'.components[c.parent].hidden
                 /\ c.accesslevels = IF c.parent = 0 THEN Range(ps.accesslevel_names)
                                     ELSE ps'.components[c.parent].accesslevels]_vars

\* C35 witness: two parameters in a row, the first given a datatype, a
\* rank bound and an unknown key; the second carries none of them.
C35_Witness ==
    /\ pc = "scan"
    /\ Len(ps.components) >= 2
    /\ source[Len(source)].kind = "parameter"
    /\ source[Len(source) - 1].kind = "parameter"
    /\ ps.components[Len(ps.components) - 1].datatype = "file"
    /\ ps.components[Len(ps.components) - 1].custom # <<>>
    /\ ps.components[Len(ps.components)].datatype = "integer"
    /\ ps.components[Len(ps.components)].custom = <<>>
    /\ ps.current_attributes = NoAttributes

\* The step has read a blank line.
BlankRead ==
    /\ pc = "scan"
    /\ Len(source') = Len(source) + 1
    /\ source'[Len(source')].kind = "blank"

\* C36: a blank line read while a paragraph is pending goes on with
\* exactly one more component, a paragraph that holds the buffer as text
\* and the accesslevels of the innermost open section (all declared levels
\* when none is open) and lies in that section (in the root list when none
\* is open), and with an empty buffer; a blank line read while no
\* paragraph is pending leaves the forest, the section stack, the buffer,
\* the pending attributes and the declared levels as they are.
C36_BlankLineCommits ==
    /\ [][BlankRead /\ Len(ps.current_paragraph) > 0 =>
             LET open == Len(ps.current_sections) > 0
                 top == ps.current_sections[Len(ps.current_sections)].component
             IN  /\ pc' = "scan"
                 /\ ps'.components =
                       Append(ps.components,
                              [Component("paragraph") EXCEPT
                                  !.text = ps.current_paragraph,
                                  !.parent = IF open THEN top ELSE 0,
                                  !.accesslevels =
                                      IF open THEN ps.components[top].accesslevels
                                      ELSE Range(ps.accesslevel_names)])
                 /\ ps'.current_paragraph = <<>>
                 /\ ps'.current_sections = ps.current_sections
                 /\ ps'.current_attributes = ps.current_attributes
                 /\ ps'.accesslevel_names = ps.accesslevel_names]_vars
    /\ [][BlankRead /\ Len(ps.current_paragraph) = 0 =>
             /\ pc' = "scan"
             /\ ps' = [ps EXCEPT !.line_no = @ + 1]]_vars

\* C36 witness: a paragraph inside a section that no level may see was
\* committed by a blank line, with the section's empty set of levels.
C36_Witness ==
    /\ pc = "scan"
    /\ source[Len(source)].kind = "blank"
    /\ source[Len(source) - 1].kind = "paragraph"
    /\ ps.accesslevel_names = <<"easy">>
    /\ Len(ps.components) = 2
    /\ ps.components[2].type = "paragraph"
    /\ ps.components[2].parent = 1
    /\ ps.components[2].text = <<"t">>
    /\ ps.components[2].accesslevels = {}
    /\ ps.current_paragraph = <<>>

\* The paragraph texts a string holds (every paragraph line reads "t").
TextsIn(string) == Len(SelectSeq(string, LAMBDA x : x = "t"))

RECURSIVE TextsPlaced(_)
\* The paragraph texts held by the labels and the paragraph components.
TextsPlaced(components) ==
    IF Len(components) = 0 THEN 0
    ELSE TextsIn(components[1].label) + TextsIn(components[1].text)
         + TextsPlaced(Tail(components))

\* The step has read a line that matches no pattern.
UnparsableRead ==
    /\ pc = "scan"
    /\ Len(source') = Len(source) + 1
    /\ source'[Len(source')].kind = "unparsable"

\* C37: the labels, the paragraph components and the buffer together hold
\* no more paragraph texts than paragraph lines were read; a parameter line
\* read with a paragraph pending adds one component, the parameter, with
\* the whole buffer as label, and empties the buffer, and a blank line
\* right after a parameter line adds no component; a line matching no
\* pattern, when warnings are not fatal, empties the buffer and adds no
\* component.
C37_ParagraphOnePlace ==
    /\ [](TextsPlaced(ps.components) + TextsIn(ps.current_paragraph)
             <= CountKind(source, "paragraph"))
    /\ [][(/\ ComponentRead
           /\ source'[Len(source')].kind = "parameter"
           /\ pc' = "scan"
           /\ Len(ps.current_paragraph) > 0)
          => /\ Len(ps'.components) = Len(ps.components) + 1
             /\ NewComponent.type = "parameter"
             /\ NewComponent.label = ps.current_paragraph
             /\ ps'.current_paragraph = <<>>]_vars
    /\ [][BlankRead /\ source[Len(source)].kind = "parameter"
          => ps'.components = ps.components]_vars
    /\ [][UnparsableRead /\ ~ps.fatal_warnings
          => /\ pc' = "scan"
             /\ ps'.current_paragraph = <<>>
             /\ ps'.components = ps.components]_vars

\* C37 witness: a paragraph of two lines became the label of a parameter
\* and the blank line after it committed nothing.
C37_Witness ==
    /\ pc = "scan"
    /\ Len(source) = 5
    /\ source[2].kind = "paragraph" /\ source[3].kind = "paragraph"
    /\ source[4].kind = "parameter" /\ source[5].kind = "blank"
    /\ Len(ps.components) = 1
    /\ ps.components[1].label = <<"t", "\n", "t">>
    /\ ps.current_paragraph = <<>>

\* The step has read a line of a pattern that has no handler function.
InertRead ==
    /\ pc = "scan"
    /\ Len(source') = Len(source) + 1
    /\ source'[Len(source')].kind \in {"static_parameter", "linecomment", "blockcomment"}

\* C38: a line read as an inert assignment, a line comment or a block
\* comment goes on with the same components, the same open sections, the
\* same pending paragraph, the same pending attributes and the same
\* declared access levels.
C38_InertLinesFrame ==
    [][InertRead
       => /\ pc' = "scan"
          /\ ps'.components = ps.components
          /\ ps'.current_sections = ps.current_sections
          /\ ps'.current_paragraph = ps.current_paragraph
          /\ ps'.current_attributes = ps.current_attributes
          /\ ps'.accesslevel_names = ps.accesslevel_names]_vars

\* C38 witness: a block comment was read with a level declared, a section
\* open and an attribute and a paragraph pending.
C38_Witness ==
    /\ pc = "scan"
    /\ Len(source) = 6
    /\ source[6].kind = "blockcomment"
    /\ source[5].kind = "paragraph"
    /\ Len(ps.accesslevel_names) = 1
    /\ Len(ps.current_sections) = 1
    /\ Len(ps.components) = 1
    /\ ps.current_attributes.hidden
    /\ ps.current_paragraph = <<"t">>

\* The earlier call has ended and write() is being called again.
CalledAgain ==
    /\ earlier = NoCall
    /\ earlier' # NoCall

\* C39: a second call of write() on the same object with the same form
\* data ends as the first call did, and when it returns, it returns the
\* same lines and the same file map; and whatever the first call left on
\* the object, returned or aborted, the scan of the second call starts
\* from the forest, the parser state and the write state the scan of a
\* first call starts from.
C39_SecondCallSame ==
    /\ []((earlier # NoCall /\ pc \in {"wdone", "werror", "wcrash"})
            => /\ ws.status = earlier.status
               /\ ws.status = "done"
                    => (ws.cns = earlier.cns /\ ws.aux_file_map = earlier.aux_file_map))
    /\ [][CalledAgain
          => /\ pc' = "wscan"
             /\ model' = model
             /\ ps' = [parse_start(FALSE) EXCEPT !.line_no = 1]
             /\ ws' = write_start(source[1])
             /\ form' = [form EXCEPT !.log = <<>>]]_vars

\* C39 witness: the second call returned, as the first had, with a file
\* map of two entries, after reading what a repeated file parameter
\* stores.
C39_Witness ==
    /\ earlier.status = "done"
    /\ pc = "wdone"
    /\ Len(ws.aux_file_map) = 2
    /\ Len(form.log) > 0

\* The repeatable sections open where a parameter line is read whose token
\* the name on the line does not hold.
TokensMissing(st, line) ==
    {s \in RepeatableAbove(st, line) : ~IsIn(s.repeat_index, line.name)}

\* C40: in the forest a successful parse() returns, the name of every
\* parameter, repeatable or not, holds the repeat_index of every repeatable
\* section it lies beneath, at any depth; and a parameter line whose name
\* lacks the repeat_index of a repeatable open section aborts the parse.
C40_AncestorTokensInName ==
    /\ [](pc = "parsed" =>
            \A i \in 1..Len(model) : \A s \in 1..Len(model) :
                (/\ model[i].type = "parameter"
                 /\ InSubtree(model, i, s)
                 /\ model[s].repeat)
                => IsIn(model[s].repeat_index, model[i].name))
    /\ [][(/\ pc = "scan"
           /\ source' # source
           /\ LastLine(source').kind = "parameter"
           /\ TokensMissing(ps, LastLine(source')) # {})
          => pc' \in {"error", "crash"}]_vars

\* C40 witness: a returned forest with a parameter that is not repeatable
\* and lies in a repeatable section inside another repeatable section.
C40_Witness ==
    /\ pc = "parsed"
    /\ \E i \in 1..Len(model) :
          /\ model[i].type = "parameter"
          /\ ~model[i].repeat
          /\ model[i].parent # 0
          /\ model[model[i].parent].repeat
          /\ model[model[i].parent].parent # 0
          /\ model[model[model[i].parent].parent].repeat

====
